---- MODULE Spec2Model ----
(***************************************************************************)
(* Model of the UDPtransfer sliding-window file transfer: the window       *)
(* predicate, the sender's per-connection state and Data loop, the         *)
(* receiver's main loop, the sender's handshake and the broker's           *)
(* scheduled re-emission.  Sequence numbers keep their u16 width.          *)
(***************************************************************************)
EXTENDS Integers, Sequences, FiniteSets, TLC

\* ------------------------------------------------------------------------
\* Widths and bounds
\* ------------------------------------------------------------------------

\* Wrapping<u16>: sequence numbers, acks and window positions are modulo 2^16.
U16 == 65536

\* Number of parts of the input file that the modelled part of a run reads.
MaxParts == 2

\* Retry budget (Config::repetition) of the modelled runs.
MaxRepetition == 2

\* How many parts behind / ahead of the current position a packet may refer to.
MaxSkew == 2

\* Connection ids the receiver draws from (the code draws a random u32).
MaxId == 2

\* Parts a file of the receiver grows by in the modelled part of a run.
MaxWritten == 3

\* Bound: datagrams one direction of the broker reads.
MaxEnvelopes == 3

\* Bound: the largest delay, in milliseconds, the broker draws for a datagram.
MaxDelay == 2

\* Bound: the time the broker runs for, in ticks.
MaxTime == 8

\* Bound: ticks of the clock in one millisecond.
TicksPerMilli == 2

\* Bound: the receiver's Config timeout, in ticks of the receiver's clock.
Timeout == 2

\* Bound: the time the receiver's clock runs for, in ticks.
MaxClock == 5

Wrap(x) == x % U16

Min(a, b) == IF a < b THEN a ELSE b

Max(a, b) == IF a > b THEN a ELSE b

\* Parts transferred in order before the modelled part of a run starts: none,
\* or enough for the next sequence numbers to wrap past 65535.
Starts == {0, U16 - 2}

\* Window sizes of the modelled connections.
WindowSizes == {0, 1, 3, U16 - 1}

\* Values of a u16 used as inputs of the window predicate.
U16Samples == {0, 1, 2, 32767, 32768, 65534, 65535}

VARIABLES
    \* harness of ConnectionProperties::is_within_window
    arg_ack, arg_window_position, cp_window_size, is_within, win_pc

VARIABLES
    \* harness of the codec: the position, the packet value and the checksum
    \* width, the bytes of the datagram, whether the datagram was changed on
    \* the way, and what from_bin returned
    c_pc, c_p, c_k, c_memory, c_damaged, c_result

VARIABLES
    \* sender (src/src/sender): position in sender(), Config, the Init being
    \* negotiated, the retry counter of the running phase, the last datagram read
    \* from the socket and the result of the last acknowledge call
    s_pc, s_config, init_packet, attempts, s_recv, ack_moved,
    \* SenderConnectionProperties
    s_props, s_window_position, loaded_parts, file_read,
    \* the input file: parts read so far, parts in the file, bytes of the last
    input_pos, input_len, input_last,
    \* the last datagram the sender sent, and all datagrams it put on the wire
    s_sent, to_receiver,
    \* the number of Init packets create_connection has sent (counted up to
    \* repetition + 1)
    inits_sent

VARIABLES
    \* receiver (src/src/receiver): whether the process runs, its Config, the
    \* map of connections, the files in its directory, the last datagram it
    \* read and all datagrams it put on the wire
    r_pc, r_config, properties, files, r_recv, to_sender

VARIABLES
    \* the receiver's clock (Instant::now), last_receive_time of every
    \* connection in the map, and the position in the pass of the main loop
    r_now, last_receive_time, r_at

VARIABLES
    \* one direction of the broker (src/src/broker): the heap of envelopes, the
    \* termination flag, the position of the send thread, the envelope it
    \* popped, the envelopes it sent, the number of datagrams the receive
    \* thread has read, the time and the position of the receive thread
    queue, brk, send_pc, to_send, emitted, received, now, recv_pc

codecVars == <<c_pc, c_p, c_k, c_memory, c_damaged, c_result>>

harnessVars == <<arg_ack, arg_window_position, cp_window_size, is_within, win_pc>>

windowVars == <<harnessVars, codecVars>>

senderVars == <<s_pc, s_config, init_packet, attempts, s_recv, ack_moved,
                s_props, s_window_position, loaded_parts, file_read,
                input_pos, input_len, input_last, s_sent, to_receiver,
                inits_sent>>

timerVars == <<r_now, last_receive_time, r_at>>

receiverVars == <<r_pc, r_config, properties, files, r_recv, to_sender, timerVars>>

brokerVars == <<queue, brk, send_pc, to_send, emitted, received, now, recv_pc>>

vars == <<windowVars, senderVars, receiverVars, brokerVars>>

\* ------------------------------------------------------------------------
\* Packets (src/src/packet)
\* ------------------------------------------------------------------------

\* PacketHeader::bin_size
HeaderSize == 9

\* Bytes of the three u16 fields of an Init body.
InitFieldsSize == 6

\* lib.rs BUFFER_SIZE, also the length of the receiver's buffer.
BUFFER_SIZE == 65535

\* The data field of a packet without payload.
NoData == -1

\* A datagram on the wire: the packet, the checksum width it was framed with
\* (for an Init this is the width its body declares) and its length in bytes.
NoPacket == [flag |-> "None", id |-> 0, seq |-> 0, ack |-> 0, data |-> NoData,
             window_size |-> 0, packet_size |-> 0, checksum_size |-> 0, len |-> 0]

\* InitPacket::new: id, seq and ack are 0; bin_size is packet_size -
\* checksum_size, so on the wire it is packet_size bytes.
InitPacket(window_size, packet_size, checksum_size) ==
    [flag |-> "Init", id |-> 0, seq |-> 0, ack |-> 0, data |-> NoData,
     window_size |-> window_size, packet_size |-> packet_size,
     checksum_size |-> checksum_size, len |-> packet_size]

\* DataPacket::new
DataPacket(data, connection_id, seq, ack) ==
    [flag |-> "Data", id |-> connection_id, seq |-> seq, ack |-> ack, data |-> data,
     window_size |-> 0, packet_size |-> 0, checksum_size |-> 0, len |-> 0]

\* DataPacket::new_receiver: an acknowledgement, a Data packet without payload.
DataPacketNewReceiver(connection_id, seq, ack) ==
    DataPacket(NoData, connection_id, seq, ack)

\* EndPacket::new: seq and ack both carry seq_num.
EndPacket(connection_id, seq_num) ==
    [flag |-> "End", id |-> connection_id, seq |-> seq_num, ack |-> seq_num,
     data |-> NoData, window_size |-> 0, packet_size |-> 0, checksum_size |-> 0,
     len |-> 0]

\* ErrorPacket::new
ErrorPacket(connection_id) ==
    [flag |-> "Error", id |-> connection_id, seq |-> 0, ack |-> 0, data |-> NoData,
     window_size |-> 0, packet_size |-> 0, checksum_size |-> 0, len |-> 0]

\* A datagram that fails to decode (ChecksumNotMatch, or shorter than a header).
CorruptPacket == [NoPacket EXCEPT !.flag = "Corrupt"]

\* Packet::to_bin_buff(memory, checksum) of a packet other than Init: bin_size
\* bytes of header and payload followed by the checksum.
Encode(pkt, bin_size, checksum) ==
    [pkt EXCEPT !.checksum_size = checksum, !.len = bin_size + checksum]

\* Packet::to_bin_buff panics when the packet does not fit the buffer, and, for
\* checksum > 0, in memory[data_end..].copy_from_slice(checksum) unless the
\* buffer ends exactly where the checksum ends.
EncodePanics(bin_size, checksum, buffer_len) ==
    \/ bin_size > buffer_len
    \/ checksum > 0 /\ buffer_len # bin_size + checksum

\* Encoding an Init: InitPacket::bin_size asserts 9 + 6 < packet_size and
\* computes packet_size - checksum_size, and InitPacket::to_bin_buff writes
\* buff[9..15] of the packet_size - checksum_size bytes it is given.
InitEncodePanics(packet_size, checksum_size, buffer_len) ==
    \/ packet_size <= HeaderSize + InitFieldsSize
    \/ packet_size - checksum_size < HeaderSize + InitFieldsSize
    \/ EncodePanics(packet_size - checksum_size, checksum_size, buffer_len)

\* InitPacket::from_bin_no_size_and_hash_check: the Init fields of a datagram,
\* read without validating its length or checksum; an error when the
\* datagram is too short to hold them.
FromBinNoSizeAndHashCheck(pkt) ==
    pkt.flag = "Init" /\ pkt.len >= HeaderSize + InitFieldsSize

\* Packet::from_bin(memory, checksum) of an Init datagram with checksum the
\* width its body declares: the outcomes the build can produce.  The u16
\* subtraction packet_size - checksum_size overflows when the declared
\* checksum is larger than the declared packet: a panic with overflow checks,
\* a huge expected size without.
InitFromBin(pkt) ==
    IF pkt.checksum_size + HeaderSize > pkt.len
    THEN {"InvalidSize"}
    ELSE IF pkt.len - pkt.checksum_size < HeaderSize + InitFieldsSize
    THEN {"Panic"}
    ELSE IF pkt.packet_size < pkt.checksum_size
    THEN {"Panic", "InvalidSize"}
    ELSE IF pkt.len - pkt.checksum_size < pkt.packet_size - pkt.checksum_size
    THEN {"InvalidSize"}
    ELSE {"Ok"}

\* Packet::from_bin(memory, checksum) of a Data, End or Error datagram on a
\* connection with the given checksum width.
FromBinOk(pkt, checksum) ==
    /\ pkt.flag \in {"Data", "End", "Error"}
    /\ checksum + HeaderSize <= pkt.len
    /\ pkt.checksum_size = checksum

\* ------------------------------------------------------------------------
\* The codec on bytes (src/src/packet): Packet::to_bin and Packet::from_bin
\* ------------------------------------------------------------------------

\* The four bytes of a u32 and the two bytes of a u16 in network byte order.
BE32(n) == <<n \div 16777216, (n \div 65536) % 256, (n \div 256) % 256, n % 256>>

BE16(n) == <<n \div 256, n % 256>>

\* A u16 read with the low byte first.
ReadU16LittleEndian(memory, pos) == memory[pos + 2] * 256 + memory[pos + 1]

\* NetworkEndian::read_u16(&memory[pos..pos + 2]); pos counts from 0.
ReadU16(memory, pos) == memory[pos + 1] * 256 + memory[pos + 2]

\* NetworkEndian::read_u32(&memory[pos..pos + 4])
ReadU32(memory, pos) ==
    memory[pos + 1] * 16777216 + memory[pos + 2] * 65536
        + memory[pos + 3] * 256 + memory[pos + 4]

\* a ^ b on bytes.
RECURSIVE Xor(_, _)
Xor(a, b) ==
    IF a = 0 THEN b
    ELSE IF b = 0 THEN a
    ELSE ((a + b) % 2) + 2 * Xor(a \div 2, b \div 2)

\* Flag::value
FlagValue(flag) ==
    CASE flag = "None" -> 0
      [] flag = "Init" -> 1
      [] flag = "Data" -> 2
      [] flag = "Error" -> 4
      [] flag = "End" -> 8

\* Flag::from_bin: the flag of a byte, "Invalid" for Err(InvalidFlag(byte)).
FlagFromBin(byte) ==
    CASE byte = 0 -> "None"
      [] byte = 1 -> "Init"
      [] byte = 2 -> "Data"
      [] byte = 4 -> "Error"
      [] byte = 8 -> "End"
      [] OTHER -> "Invalid"

\* Packet values of the codec: the header fields, the Init parameters and
\* the payload bytes of a Data packet.
InitValue(id, window_size, packet_size, checksum_size) ==
    [flag |-> "Init", id |-> id, seq |-> 0, ack |-> 0, window_size |-> window_size,
     packet_size |-> packet_size, checksum_size |-> checksum_size, data |-> << >>]

DataValue(data, id, seq, ack) ==
    [flag |-> "Data", id |-> id, seq |-> seq, ack |-> ack, window_size |-> 0,
     packet_size |-> 0, checksum_size |-> 0, data |-> data]

EndValue(id, seq_num) ==
    [flag |-> "End", id |-> id, seq |-> seq_num, ack |-> seq_num, window_size |-> 0,
     packet_size |-> 0, checksum_size |-> 0, data |-> << >>]

ErrorValue(id) ==
    [flag |-> "Error", id |-> id, seq |-> 0, ack |-> 0, window_size |-> 0,
     packet_size |-> 0, checksum_size |-> 0, data |-> << >>]

\* PacketHeader::to_bin_buff
HeaderToBin(p) == BE32(p.id) \o BE16(p.seq) \o BE16(p.ack) \o <<FlagValue(p.flag)>>

\* PacketHeader::from_bin on nine bytes with a valid flag byte.
HeaderFromBin(memory) ==
    [flag |-> FlagFromBin(memory[9]), id |-> ReadU32(memory, 0),
     seq |-> ReadU16(memory, 4), ack |-> ReadU16(memory, 6), window_size |-> 0,
     packet_size |-> 0, checksum_size |-> 0, data |-> << >>]

\* ToBin::bin_size of a packet; the u16 subtraction of an Init wraps where
\* overflow is not checked.
BinSize(p) ==
    IF p.flag = "Init" THEN Wrap(p.packet_size - p.checksum_size)
    ELSE HeaderSize + Len(p.data)

\* ToBin::to_bin_buff of a packet into a buffer of bin_size bytes.
BodyToBin(p) ==
    IF p.flag = "Init"
    THEN HeaderToBin(p) \o BE16(p.window_size) \o BE16(p.packet_size)
           \o BE16(p.checksum_size)
           \o [i \in 1 .. (BinSize(p) - HeaderSize - InitFieldsSize) |-> 0]
    ELSE HeaderToBin(p) \o p.data

\* A fold that leaves out a last block shorter than the checksum.
FoldWholeBlock(checksum, block) ==
    IF Len(block) < Len(checksum)
    THEN checksum
    ELSE [i \in 1 .. Len(checksum) |-> Xor(checksum[i], block[i])]

\* construct_checksum, one pass of the loop: the block is xor-ed into the
\* checksum; zip stops at the end of a short block.
FoldBlock(checksum, block) ==
    [i \in 1 .. Len(checksum) |->
        IF i <= Len(block) THEN Xor(checksum[i], block[i]) ELSE checksum[i]]

\* num_blocks
NumBlocks(data, checksum_size) ==
    IF data % checksum_size = 0
    THEN data \div checksum_size
    ELSE data \div checksum_size + 1

RECURSIVE ChecksumLoop(_, _, _, _)
ChecksumLoop(checksum, data, i, blocks) ==
    IF i >= blocks
    THEN checksum
    ELSE LET checksum_size == Len(checksum)
             ending == Min((i + 1) * checksum_size, Len(data))
         IN  ChecksumLoop(FoldBlock(checksum, SubSeq(data, i * checksum_size + 1, ending)),
                          data, i + 1, blocks)

\* construct_checksum
ConstructChecksum(data, checksum_size) ==
    ChecksumLoop([i \in 1 .. checksum_size |-> 0], data, 0,
                 NumBlocks(Len(data), checksum_size))

\* Packet::to_bin(checksum): the outcomes the build can produce.  An Init
\* whose packet_size - checksum_size is below 15 writes its fields past the
\* end of the buffer; the assertion 9 + 6 < packet_size and the overflow of
\* the subtraction abort a build that checks them.
ToBin(p, checksum) ==
    LET data_end == BinSize(p)
        body == BodyToBin(p)
        memory == IF checksum > 0 THEN body \o ConstructChecksum(body, checksum)
                  ELSE body
    IN  IF p.flag = "Init" /\ data_end < HeaderSize + InitFieldsSize
        THEN {[kind |-> "Panic", memory |-> << >>]}
        ELSE IF p.flag = "Init" /\ (p.packet_size <= HeaderSize + InitFieldsSize
                                     \/ p.packet_size < p.checksum_size)
        THEN {[kind |-> "Panic", memory |-> << >>], [kind |-> "Ok", memory |-> memory]}
        ELSE {[kind |-> "Ok", memory |-> memory]}

\* What from_bin returns: Ok(packet), Err(InvalidSize(expected, actual)),
\* Err(ChecksumNotMatch), Err(InvalidFlag(byte)), or no return at all.
NoResult ==
    [kind |-> "None", packet |-> ErrorValue(0), expected |-> 0, actual |-> 0, byte |-> 0]

Ok(packet) == [NoResult EXCEPT !.kind = "Ok", !.packet = packet]

InvalidSize(expected, actual) ==
    [NoResult EXCEPT !.kind = "InvalidSize", !.expected = expected, !.actual = actual]

ChecksumNotMatch == [NoResult EXCEPT !.kind = "ChecksumNotMatch"]

InvalidFlag(byte) == [NoResult EXCEPT !.kind = "InvalidFlag", !.byte = byte]

Panicked == [NoResult EXCEPT !.kind = "Panic"]

\* ToBin::from_bin for Packet on the bytes before the checksum (nine at
\* least): Flag::from_bin(..).unwrap(), then the from_bin of the variant.
BodyFromBin(memory) ==
    LET flag == FlagFromBin(memory[9])
        header == HeaderFromBin(memory)
    IN  IF flag = "Invalid" THEN {Panicked}
        ELSE IF flag = "None" THEN {InvalidFlag(memory[9])}
        ELSE IF flag = "Data"
        THEN {Ok([header EXCEPT !.data = SubSeq(memory, HeaderSize + 1, Len(memory))])}
        ELSE IF flag \in {"Error", "End"} THEN {Ok(header)}
        ELSE IF Len(memory) < HeaderSize + InitFieldsSize THEN {Panicked}
        ELSE LET window_size == ReadU16(memory, HeaderSize)
                 packet_size == ReadU16(memory, HeaderSize + 2)
                 checksum_size == ReadU16(memory, HeaderSize + 4)
                 expected_memory == Wrap(packet_size - checksum_size)
                 result == IF Len(memory) < expected_memory
                           THEN InvalidSize(expected_memory, Len(memory))
                           ELSE Ok([header EXCEPT !.window_size = window_size,
                                                  !.packet_size = packet_size,
                                                  !.checksum_size = checksum_size])
             IN  IF packet_size < checksum_size THEN {Panicked, result} ELSE {result}

\* checksums_match
ChecksumsMatch(first, second) ==
    ~\E i \in 1 .. Min(Len(first), Len(second)) : first[i] # second[i]

\* Packet::from_bin(memory, checksum): the outcomes the build can produce.
FromBin(memory, checksum) ==
    IF checksum + HeaderSize > Len(memory)
    THEN {InvalidSize(checksum + HeaderSize, Len(memory))}
    ELSE LET checksum_start == Len(memory) - checksum
             body == SubSeq(memory, 1, checksum_start)
             orig_checksum == SubSeq(memory, checksum_start + 1, Len(memory))
         IN  {IF package.kind = "InvalidSize"
              THEN InvalidSize(package.expected, Len(memory))
              ELSE IF package.kind # "Ok" THEN package
              ELSE IF checksum > 0
                      /\ ~ChecksumsMatch(orig_checksum, ConstructChecksum(body, checksum))
              THEN ChecksumNotMatch
              ELSE package
              : package \in BodyFromBin(body)}

\* The codec is not in use.
CodecIdle ==
    /\ c_pc = "idle"
    /\ c_p = ErrorValue(0)
    /\ c_k = 0
    /\ c_memory = << >>
    /\ c_damaged = FALSE
    /\ c_result = NoResult

\* p.to_bin(k)
ToBinCall ==
    /\ c_pc = "start"
    /\ \E out \in ToBin(c_p, c_k) :
          /\ c_memory' = out.memory
          /\ c_pc' = IF out.kind = "Panic" THEN "panic" ELSE "encoded"
    /\ UNCHANGED <<c_p, c_k, c_damaged, c_result>>

\* The broker replaces one byte of the datagram on its way.
Damage(pos, byte) ==
    /\ c_pc = "encoded"
    /\ ~c_damaged
    /\ pos \in 1 .. Len(c_memory)
    /\ c_memory[pos] # byte
    /\ c_memory' = [c_memory EXCEPT ![pos] = byte]
    /\ c_damaged' = TRUE
    /\ UNCHANGED <<c_pc, c_p, c_k, c_result>>

\* The broker shortens the datagram on its way to its max_packet_size: the
\* first n bytes of the one that was encoded arrive.
Truncate(n) ==
    /\ c_pc = "encoded"
    /\ ~c_damaged
    /\ n < Len(c_memory)
    /\ c_memory' = SubSeq(c_memory, 1, n)
    /\ c_damaged' = TRUE
    /\ UNCHANGED <<c_pc, c_p, c_k, c_result>>

\* Packet::from_bin(memory, k)
FromBinCall ==
    /\ c_pc = "encoded"
    /\ \E out \in FromBin(c_memory, c_k) :
          /\ c_result' = out
          /\ c_pc' = IF out.kind = "Panic" THEN "panic" ELSE "decoded"
    /\ UNCHANGED <<c_p, c_k, c_memory, c_damaged>>

\* ------------------------------------------------------------------------
\* ConnectionProperties::is_within_window
\* ------------------------------------------------------------------------

IsWithinWindow(ack, window_position, window_size) ==
    LET window_start == window_position
        window_end == Wrap(window_start + window_size)
    IN  IF window_start < window_end
        THEN ack >= window_position /\ ack < window_position + window_size
        ELSE window_position <= ack \/ ack < window_end

WindowIdle ==
    /\ arg_ack = 0
    /\ arg_window_position = 0
    /\ cp_window_size = 0
    /\ is_within = FALSE
    /\ win_pc = "idle"
    /\ CodecIdle

CallIsWithinWindow ==
    /\ win_pc = "call"
    /\ is_within' = IsWithinWindow(arg_ack, arg_window_position, cp_window_size)
    /\ win_pc' = "returned"
    /\ UNCHANGED <<arg_ack, arg_window_position, cp_window_size, codecVars>>



\* ------------------------------------------------------------------------
\* SenderConnectionProperties (src/src/sender/sender_connection_properties.rs)
\* ------------------------------------------------------------------------

NoProps == [id |-> 0, checksum_size |-> 0, window_size |-> 0, packet_size |-> 0]

NoParts == [k \in {} |-> 0]

\* ConnectionProperties::new (the peer address is not modelled: one peer).
ConnectionProperties(id, checksum_size, window_size, packet_size) ==
    [id |-> id, checksum_size |-> checksum_size, window_size |-> window_size,
     packet_size |-> packet_size]

\* struct Part: the content is the index of the part in the input file;
\* last_transition is covered by the choice of parts whose timer has run out.
Part(content, seq) == [content |-> content, seq |-> seq, send |-> FALSE]

Without(parts, key) == [k \in DOMAIN parts \ {key} |-> parts[k]]

\* An insert that overwrites every entry of the map.
WithEvery(parts, key, value) == [k \in DOMAIN parts \cup {key} |-> value]

With(parts, key, value) ==
    [k \in DOMAIN parts \cup {key} |-> IF k = key THEN value ELSE parts[k]]

\* SenderConnectionProperties::is_complete
IsComplete == file_read /\ Cardinality(DOMAIN loaded_parts) = 0

\* The loop of acknowledge: remove current_pos .. end_pos - 1, panicking
\* ("Can't remove entry for acknowledge") at the first key that is not loaded.
RECURSIVE AcknowledgeLoop(_, _, _)
AcknowledgeLoop(current_pos, end_pos, parts) ==
    IF current_pos = end_pos
    THEN [panic |-> FALSE, parts |-> parts]
    ELSE IF current_pos \notin DOMAIN parts
         THEN [panic |-> TRUE, parts |-> parts]
         ELSE AcknowledgeLoop(Wrap(current_pos + 1), end_pos, Without(parts, current_pos))

\* SenderConnectionProperties::acknowledge: the new window_position and
\* loaded_parts, whether the window moved, and whether the call panicked.
Acknowledge(ack, window_position, parts, window_size) ==
    IF ~IsWithinWindow(ack, window_position, window_size)
    THEN [panic |-> FALSE, moved |-> FALSE,
          window_position |-> window_position, parts |-> parts]
    ELSE LET end_pos == Wrap(ack + 1)
             r == AcknowledgeLoop(window_position, end_pos, parts)
         IN  [panic |-> r.panic, moved |-> end_pos # window_position,
              window_position |-> end_pos, parts |-> r.parts]

\* Bytes of file content per Data packet, as load_window computes them.
LoadSize(props) == props.packet_size - props.checksum_size - HeaderSize

\* Bytes of the part of the input file with the given index: every part is a
\* full read of load_size bytes except the last one, which has input_last.
PartSize(content, load_size) ==
    IF content = input_len - 1 THEN Min(input_last, load_size) ELSE load_size

\* The loop of load_window: read parts until the window is full or the file
\* ends (a read of 0 bytes); a key that is already loaded panics.
RECURSIVE LoadLoop(_, _, _, _, _)
LoadLoop(load_index, end_index, parts, pos, load_size) ==
    IF load_index = end_index
    THEN [panic |-> FALSE, parts |-> parts, pos |-> pos, file_read |-> FALSE]
    ELSE IF pos >= input_len \/ load_size = 0
         THEN [panic |-> FALSE, parts |-> parts, pos |-> pos, file_read |-> TRUE]
         ELSE IF load_index \in DOMAIN parts
              THEN [panic |-> TRUE, parts |-> parts, pos |-> pos, file_read |-> FALSE]
              ELSE LoadLoop(Wrap(load_index + 1), end_index,
                            With(parts, load_index, Part(pos, load_index)),
                            pos + 1, load_size)

\* A load_window that reads one part more than the window holds.
LoadWindowPastEnd(window_position, parts, is_read, pos, props) ==
    IF is_read
    THEN [panic |-> FALSE, parts |-> parts, pos |-> pos, file_read |-> TRUE]
    ELSE LoadLoop(Wrap(window_position + Wrap(Cardinality(DOMAIN parts))),
                  Wrap(window_position + props.window_size + 1),
                  parts, pos, LoadSize(props))

\* SenderConnectionProperties::load_window
LoadWindow(window_position, parts, is_read, pos, props) ==
    IF is_read
    THEN [panic |-> FALSE, parts |-> parts, pos |-> pos, file_read |-> TRUE]
    ELSE IF LoadSize(props) < 0
         THEN [panic |-> TRUE, parts |-> parts, pos |-> pos, file_read |-> FALSE]
         ELSE LoadLoop(Wrap(window_position + Wrap(Cardinality(DOMAIN parts))),
                       Wrap(window_position + props.window_size),
                       parts, pos, LoadSize(props))

\* The offsets i from window_position that send_data visits:
\* 0 .. min(window_size, loaded_parts.len()) - 1.
SendOffsets(parts, window_size) ==
    0 .. (Min(window_size, Wrap(Cardinality(DOMAIN parts))) - 1)

MarkSent(parts, keys) ==
    [k \in DOMAIN parts |-> IF k \in keys THEN [parts[k] EXCEPT !.send = TRUE]
                                          ELSE parts[k]]

\* SenderConnectionProperties::send_data: the parts at the offsets in `due`
\* (never sent, or sent and timed out) are encoded into a buffer of
\* packet_size bytes and sent in window order, up to the first offset whose
\* part is not loaded or whose encoding panics.
SendData(window_position, parts, props, due) ==
    LET key(i) == Wrap(window_position + i)
        bad == {i \in SendOffsets(parts, props.window_size) :
                  \/ key(i) \notin DOMAIN parts
                  \/ /\ i \in due
                     /\ EncodePanics(HeaderSize + PartSize(parts[key(i)].content,
                                                           LoadSize(props)),
                                     props.checksum_size, props.packet_size)}
        sent == {i \in due : \A j \in bad : i < j}
    IN  [panic |-> bad # {},
         parts |-> MarkSent(parts, {key(i) : i \in sent}),
         packets |-> {Encode(DataPacket(parts[key(i)].content, props.id,
                                        parts[key(i)].seq, window_position),
                             HeaderSize + PartSize(parts[key(i)].content,
                                                   LoadSize(props)),
                             props.checksum_size) : i \in sent}]

\* ------------------------------------------------------------------------
\* create_connection (src/src/sender/logic.rs): the Init phase
\* ------------------------------------------------------------------------

\* The largest payload a UDP datagram carries; send_to fails beyond it.
MaxDatagram == 65507

\* A negotiation that adopts the values of the reply.
SenderNegotiateRemoteOnly(local, remote) ==
    [local EXCEPT !.packet_size = remote.packet_size,
                  !.window_size = remote.window_size,
                  !.checksum_size = remote.checksum_size,
                  !.len = remote.packet_size]

\* A negotiation that keeps the sender's own values.
SenderNegotiateLocalOnly(local, remote) == local

\* The update of init_packet by an Init reply that parsed.
SenderNegotiate(local, remote) ==
    [local EXCEPT !.packet_size = Min(local.packet_size, remote.packet_size),
                  !.window_size = Min(local.window_size, remote.window_size),
                  !.checksum_size = Max(local.checksum_size, remote.checksum_size),
                  !.len = Min(local.packet_size, remote.packet_size)]

\* A reply that is taken for a connection whatever its id.
NeverRetryReply(pkt) == FALSE

\* The reply carries id 0: the receiver could not read the whole Init and
\* answered with its own limits; no connection exists.
IsRetryReply(pkt) == pkt.id = 0

senderConnVars == <<s_props, s_window_position, loaded_parts, file_read, input_pos>>

\* Top of the loop: encode init_packet and send it.
InitSend ==
    /\ s_pc = "init_send"
    /\ attempts < s_config.repetition
    /\ IF \/ InitEncodePanics(init_packet.packet_size, init_packet.checksum_size,
                              BUFFER_SIZE)
          \/ init_packet.packet_size > MaxDatagram
       THEN s_pc' = "panic" /\ UNCHANGED <<s_sent, to_receiver, inits_sent>>
       ELSE /\ s_sent' = init_packet
            /\ to_receiver' = to_receiver \cup {init_packet}
            /\ inits_sent' = Min(inits_sent + 1, s_config.repetition + 1)
            /\ s_pc' = "init_recv"
    /\ UNCHANGED <<s_config, init_packet, attempts, s_recv, ack_moved, input_len,
                   input_last>>
    /\ UNCHANGED senderConnVars

\* The loop ends without a connection: create_connection returns Err and
\* sender() panics in expect("Can't create init connection").
InitExhausted ==
    /\ s_pc = "init_send"
    /\ attempts >= s_config.repetition
    /\ s_pc' = "panic"
    /\ UNCHANGED <<s_config, inits_sent, init_packet, attempts, s_recv, ack_moved, input_len,
                   input_last, s_sent, to_receiver>>
    /\ UNCHANGED senderConnVars

\* recv_with_timeout returns an error.
InitTimeout ==
    /\ s_pc = "init_recv"
    /\ attempts' = attempts + 1
    /\ s_recv' = NoPacket
    /\ s_pc' = "init_send"
    /\ UNCHANGED <<s_config, inits_sent, init_packet, ack_moved, input_len, input_last, s_sent,
                   to_receiver>>
    /\ UNCHANGED senderConnVars

\* A datagram arrives in the Init phase.
InitReceive(pkt) ==
    /\ s_pc = "init_recv"
    /\ s_recv' = pkt
    /\ UNCHANGED <<s_config, inits_sent, ack_moved, input_len, input_last, s_sent, to_receiver,
                   input_pos>>
    /\ IF pkt.len < HeaderSize
       THEN /\ attempts' = attempts + 1
            /\ s_pc' = "init_send"
            /\ UNCHANGED <<init_packet, s_props, s_window_position, loaded_parts,
                           file_read>>
       ELSE IF pkt.flag = "Corrupt"
       THEN \* ChecksumNotMatch: create_connection returns Err
            /\ s_pc' = "panic"
            /\ UNCHANGED <<init_packet, attempts, s_props, s_window_position,
                           loaded_parts, file_read>>
       ELSE IF ~FromBinNoSizeAndHashCheck(pkt)
       THEN /\ s_pc' = "init_send"
            /\ UNCHANGED <<init_packet, attempts, s_props, s_window_position,
                           loaded_parts, file_read>>
       ELSE \E outcome \in InitFromBin(pkt) :
              IF outcome = "Panic"
              THEN /\ s_pc' = "panic"
                   /\ UNCHANGED <<init_packet, attempts, s_props, s_window_position,
                           loaded_parts, file_read>>
              ELSE IF outcome = "InvalidSize"
              THEN /\ init_packet' = [init_packet EXCEPT !.packet_size = pkt.len,
                                                         !.len = pkt.len]
                   /\ s_pc' = "init_send"
                   /\ UNCHANGED <<attempts, s_props, s_window_position, loaded_parts,
                                       file_read>>
              ELSE /\ init_packet' = SenderNegotiate(init_packet, pkt)
                   /\ IF IsRetryReply(pkt)
                      THEN /\ s_pc' = "init_send"
                           /\ UNCHANGED <<attempts, s_props, s_window_position, loaded_parts,
                                       file_read>>
                      ELSE /\ s_props' = ConnectionProperties(
                                             pkt.id, init_packet'.checksum_size,
                                             init_packet'.window_size,
                                             init_packet'.packet_size)
                           /\ s_window_position' = 0
                           /\ loaded_parts' = NoParts
                           /\ file_read' = FALSE
                           /\ attempts' = 0
                           /\ s_pc' = "send_data"

\* ------------------------------------------------------------------------
\* send_data (src/src/sender/logic.rs): the Data phase
\* ------------------------------------------------------------------------

\* Packet::from_bin(buffer, checksum_size) in the Data and Closing phases.
SenderFromBinOk(pkt, checksum) ==
    /\ pkt.flag \in {"Init", "Data", "End", "Error"}
    /\ checksum + HeaderSize <= pkt.len
    /\ pkt.checksum_size = checksum

\* One pass of the loop up to the blocking receive: load_window, then
\* send_data for every part never sent and for the sent parts in `expired`,
\* the ones whose timeout has run out.
SendDataIteration ==
    /\ s_pc = "send_data"
    /\ attempts < s_config.repetition /\ ~IsComplete
    /\ LET l == LoadWindow(s_window_position, loaded_parts, file_read, input_pos, s_props)
           offsets == {i \in SendOffsets(l.parts, s_props.window_size) :
                          Wrap(s_window_position + i) \in DOMAIN l.parts}
           sent_before == {i \in offsets : l.parts[Wrap(s_window_position + i)].send}
       IN  IF l.panic
           THEN /\ s_pc' = "panic"
                /\ UNCHANGED <<loaded_parts, file_read, input_pos, s_sent, to_receiver>>
           ELSE \E expired \in SUBSET sent_before :
                  LET r == SendData(s_window_position, l.parts, s_props,
                                    (offsets \ sent_before) \cup expired)
                  IN  /\ loaded_parts' = r.parts
                      /\ file_read' = l.file_read
                      /\ input_pos' = l.pos
                      /\ to_receiver' = to_receiver \cup r.packets
                      /\ s_sent' = IF r.packets = {} THEN s_sent
                                   ELSE CHOOSE d \in r.packets :
                                          \A e \in r.packets :
                                            Wrap(e.seq - s_window_position + U16)
                                              <= Wrap(d.seq - s_window_position + U16)
                      /\ s_pc' = IF r.panic THEN "panic" ELSE "recv_data"
    /\ UNCHANGED <<s_config, inits_sent, init_packet, attempts, s_recv, ack_moved, s_props,
                   s_window_position, input_len, input_last>>

\* The loop condition fails: all data sent (send_end starts with its own
\* attempts counter), or the connection is lost.
SendDataExit ==
    /\ s_pc = "send_data"
    /\ ~(attempts < s_config.repetition /\ ~IsComplete)
    /\ IF IsComplete
       THEN s_pc' = "end_send" /\ attempts' = 0
       ELSE s_pc' = "failed" /\ UNCHANGED attempts
    /\ UNCHANGED <<s_config, inits_sent, init_packet, s_recv, ack_moved, s_props,
                   s_window_position, loaded_parts, file_read, input_pos, input_len,
                   input_last, s_sent, to_receiver>>

\* A receive timeout that starts the count of attempts again.
SendDataTimeoutReset ==
    /\ s_pc = "recv_data"
    /\ attempts' = 0
    /\ s_recv' = NoPacket
    /\ s_pc' = "send_data"
    /\ UNCHANGED <<s_config, inits_sent, init_packet, ack_moved, s_props,
                   s_window_position, loaded_parts, file_read, input_pos, input_len,
                   input_last, s_sent, to_receiver>>

\* recv_with_timeout returns an error.
SendDataTimeout ==
    /\ s_pc = "recv_data"
    /\ attempts' = attempts + 1
    /\ s_recv' = NoPacket
    /\ s_pc' = "send_data"
    /\ UNCHANGED <<s_config, inits_sent, init_packet, ack_moved, s_props, s_window_position,
                   loaded_parts, file_read, input_pos, input_len, input_last, s_sent,
                   to_receiver>>

\* A datagram arrives in the Data phase.
SendDataReceive(pkt) ==
    /\ s_pc = "recv_data"
    /\ s_recv' = pkt
    /\ UNCHANGED <<s_config, inits_sent, init_packet, s_props, file_read, input_pos, input_len,
                   input_last>>
    /\ IF \/ ~SenderFromBinOk(pkt, s_props.checksum_size)
          \/ pkt.id # s_props.id
          \/ pkt.flag = "Init"
       THEN \* parse error, wrong connection id, late Init: ignored
            /\ s_pc' = "send_data"
            /\ UNCHANGED <<attempts, ack_moved, s_window_position, loaded_parts,
                           s_sent, to_receiver>>
       ELSE IF pkt.flag = "End"
       THEN /\ IF EncodePanics(HeaderSize, s_props.checksum_size, BUFFER_SIZE)
               THEN s_pc' = "panic" /\ UNCHANGED <<s_sent, to_receiver>>
               ELSE LET e == Encode(ErrorPacket(s_props.id), HeaderSize,
                                    s_props.checksum_size)
                    IN  /\ to_receiver' = to_receiver \cup {e}
                        /\ s_sent' = e
                        /\ s_pc' = "failed"
            /\ UNCHANGED <<attempts, ack_moved, s_window_position, loaded_parts>>
       ELSE IF pkt.flag = "Error"
       THEN /\ s_pc' = "failed"
            /\ UNCHANGED <<attempts, ack_moved, s_window_position, loaded_parts,
                           s_sent, to_receiver>>
       ELSE LET a == Acknowledge(pkt.ack, s_window_position, loaded_parts,
                                 s_props.window_size)
            IN  IF a.panic
                THEN /\ s_pc' = "panic"
                     /\ UNCHANGED <<attempts, ack_moved, s_window_position,
                                    loaded_parts, s_sent, to_receiver>>
                ELSE /\ s_window_position' = a.window_position
                     /\ loaded_parts' = a.parts
                     /\ ack_moved' = a.moved
                     /\ attempts' = IF a.moved THEN 0 ELSE attempts
                     /\ s_pc' = "send_data"
                     /\ UNCHANGED <<s_sent, to_receiver>>

\* ------------------------------------------------------------------------
\* send_end (src/src/sender/logic.rs): the Closing phase
\* ------------------------------------------------------------------------

\* Top of the loop: encode End(id, window_position) and send it.
EndSend ==
    /\ s_pc = "end_send"
    /\ attempts < s_config.repetition
    /\ IF EncodePanics(HeaderSize, s_props.checksum_size, BUFFER_SIZE)
       THEN s_pc' = "panic" /\ UNCHANGED <<s_sent, to_receiver>>
       ELSE LET e == Encode(EndPacket(s_props.id, s_window_position), HeaderSize,
                            s_props.checksum_size)
            IN  /\ to_receiver' = to_receiver \cup {e}
                /\ s_sent' = e
                /\ s_pc' = "end_recv"
    /\ UNCHANGED <<s_config, inits_sent, init_packet, attempts, s_recv, ack_moved, input_len,
                   input_last>>
    /\ UNCHANGED senderConnVars

\* The loop ends without a confirmation: "End packet timeout".
EndExhausted ==
    /\ s_pc = "end_send"
    /\ attempts >= s_config.repetition
    /\ s_pc' = "failed"
    /\ UNCHANGED <<s_config, inits_sent, init_packet, attempts, s_recv, ack_moved, input_len,
                   input_last, s_sent, to_receiver>>
    /\ UNCHANGED senderConnVars

\* recv_with_timeout returns an error.
EndTimeout ==
    /\ s_pc = "end_recv"
    /\ attempts' = attempts + 1
    /\ s_recv' = NoPacket
    /\ s_pc' = "end_send"
    /\ UNCHANGED <<s_config, inits_sent, init_packet, ack_moved, input_len, input_last, s_sent,
                   to_receiver>>
    /\ UNCHANGED senderConnVars

\* An End taken for the confirmation on its seq alone.
IsConfirmationBySeq(pkt, window_position) ==
    pkt.seq = window_position

\* send_end, the test of the End that confirms the transfer.
IsConfirmation(pkt, window_position) ==
    ~(pkt.ack # window_position \/ pkt.seq # window_position)

\* A datagram arrives in the Closing phase.
EndReceive(pkt) ==
    /\ s_pc = "end_recv"
    /\ s_recv' = pkt
    /\ UNCHANGED <<s_config, inits_sent, init_packet, attempts, ack_moved, input_len, input_last>>
    /\ UNCHANGED senderConnVars
    /\ IF ~SenderFromBinOk(pkt, s_props.checksum_size)
       THEN s_pc' = "end_send" /\ UNCHANGED <<s_sent, to_receiver>>
       ELSE IF pkt.id # s_props.id
       THEN /\ s_pc' = IF pkt.flag = "Init" THEN "end_send" ELSE "failed"
            /\ UNCHANGED <<s_sent, to_receiver>>
       ELSE IF pkt.flag = "End"
       THEN IF ~IsConfirmation(pkt, s_window_position)
            THEN IF EncodePanics(HeaderSize, s_props.checksum_size, BUFFER_SIZE)
                 THEN s_pc' = "panic" /\ UNCHANGED <<s_sent, to_receiver>>
                 ELSE LET e == Encode(ErrorPacket(s_props.id), HeaderSize,
                                      s_props.checksum_size)
                      IN  /\ to_receiver' = to_receiver \cup {e}
                          /\ s_sent' = e
                          /\ s_pc' = "failed"
            ELSE s_pc' = "done" /\ UNCHANGED <<s_sent, to_receiver>>
       ELSE IF pkt.flag = "Error"
       THEN s_pc' = "failed" /\ UNCHANGED <<s_sent, to_receiver>>
       ELSE s_pc' = "end_send" /\ UNCHANGED <<s_sent, to_receiver>>

\* ------------------------------------------------------------------------
\* ReceiverConnectionProperties
\* (src/src/receiver/receiver_connection_properties.rs)
\* ------------------------------------------------------------------------

\* ReceiverConnectionProperties::new.  file tells whether the handle is open;
\* last_receive_time is covered by the choice of the connections that time out.
ReceiverConnectionProperties(conn_props) ==
    [static_properties |-> conn_props, next_write_position |-> 0,
     window_position |-> 0, parts_received |-> NoParts, is_closed |-> FALSE,
     file |-> FALSE]

\* The loop of store_data that moves the window over the parts received.
RECURSIVE AdvanceWindow(_, _)
AdvanceWindow(window_position, parts) ==
    IF window_position \in DOMAIN parts
    THEN AdvanceWindow(Wrap(window_position + 1), parts)
    ELSE window_position

\* ReceiverConnectionProperties::store_data
StoreData(prop, data, seq) ==
    IF ~IsWithinWindow(seq, prop.window_position, prop.static_properties.window_size)
    THEN prop
    ELSE LET parts == With(prop.parts_received, seq, data)
         IN  [prop EXCEPT !.parts_received = parts,
                          !.window_position = AdvanceWindow(prop.window_position, parts)]

\* The parts of the cache that are due, appended in the order of their keys.
SaveLoopKeyOrder(next_write_position, window_position, parts, written) ==
    LET due == {k \in DOMAIN parts :
                   Wrap(k - next_write_position + U16)
                       < Wrap(window_position - next_write_position + U16)}
        RECURSIVE Ascending(_, _)
        Ascending(keys, w) ==
            IF keys = {} THEN w
            ELSE LET m == CHOOSE k \in keys : \A j \in keys : k <= j
                 IN  Ascending(keys \ {m}, Append(w, parts[m]))
    IN  [panic |-> FALSE,
         parts |-> [k \in DOMAIN parts \ due |-> parts[k]],
         written |-> Ascending(due, written)]

\* The loop of save_into_file: append the parts next_write_position ..
\* window_position - 1 to the file, removing them from the cache.
RECURSIVE SaveLoop(_, _, _, _)
SaveLoop(next_write_position, window_position, parts, written) ==
    IF next_write_position = window_position
    THEN [panic |-> FALSE, parts |-> parts, written |-> written]
    ELSE IF next_write_position \notin DOMAIN parts
         THEN [panic |-> TRUE, parts |-> parts, written |-> written]
         ELSE SaveLoop(Wrap(next_write_position + 1), window_position,
                       Without(parts, next_write_position),
                       Append(written, parts[next_write_position]))

\* ReceiverConnectionProperties::save_into_file: the connection afterwards and
\* the parts appended to its file (the file is opened, and created, at the
\* first part written).
SaveIntoFile(prop) ==
    LET r == SaveLoop(prop.next_write_position, prop.window_position,
                      prop.parts_received, << >>)
    IN  [panic |-> r.panic,
         prop |-> [prop EXCEPT !.parts_received = r.parts,
                               !.next_write_position = prop.window_position,
                               !.file = prop.file \/ Len(r.written) > 0],
         written |-> r.written]

\* An acknowledgement of the part the receiver waits for.
GetAcknowledgeAhead(prop) == prop.window_position

\* ReceiverConnectionProperties::get_acknowledge
GetAcknowledge(prop) == Wrap(prop.window_position - 1 + U16)

\* A file of the receiver's directory: `base` parts that were in it when the
\* modelled part of the run started, then the parts in `tail`.
NewFile == [base |-> 0, tail |-> << >>]

\* file.write in append mode, creating the file when it does not exist.
AppendToFile(fs, id, written) ==
    IF written = << >> THEN fs
    ELSE LET f == IF id \in DOMAIN fs THEN fs[id] ELSE NewFile
         IN  With(fs, id, [f EXCEPT !.tail = f.tail \o written])

\* ------------------------------------------------------------------------
\* The receiver's main loop (src/src/receiver/logic.rs)
\* ------------------------------------------------------------------------

\* The parameters the receiver chooses for an accepted Init.
ReceiverNegotiateProposed(init, config) ==
    [window_size |-> init.window_size, packet_size |-> init.packet_size,
     checksum_size |-> init.checksum_size]

ReceiverNegotiate(init, config) ==
    [window_size |-> Min(init.window_size, config.max_window_size),
     packet_size |-> Min(init.packet_size, config.max_packet_size),
     checksum_size |-> Max(init.checksum_size, config.min_checksum)]

\* The ids the allocation loop can end with: drawn at random, taken when
\* unused and non-zero.
AnyId(props) == 0 .. MaxId

AllocatedIds(props) == {id \in 0 .. MaxId : id \notin DOMAIN props /\ id > 0}

\* remove_connection for a connection already taken out of the map: a closed
\* connection keeps its file; otherwise the file is deleted when it exists
\* and an Error packet is sent to the connection's peer.
RemoveConnection(prop, fs) ==
    IF prop.is_closed
    THEN [panic |-> FALSE, files |-> fs, packets |-> {}]
    ELSE LET id == prop.static_properties.id
             c == prop.static_properties.checksum_size
         IN  [panic |-> EncodePanics(HeaderSize, c, BUFFER_SIZE),
              files |-> Without(fs, id),
              packets |-> IF EncodePanics(HeaderSize, c, BUFFER_SIZE) THEN {}
                          ELSE {Encode(ErrorPacket(id), HeaderSize, c)}]

\* The result r of a handler that removed connection id from the map.
Removed(id, r) ==
    /\ properties' = Without(properties, id)
    /\ files' = r.files
    /\ to_sender' = to_sender \cup r.packets
    /\ r_pc' = IF r.panic THEN "panic" ELSE "run"

\* A handler sends `reply`, framed with `checksum`, from the receive buffer.
Reply(reply, bin_size, checksum) ==
    IF EncodePanics(bin_size, checksum, BUFFER_SIZE)
    THEN r_pc' = "panic" /\ UNCHANGED to_sender
    ELSE /\ to_sender' = to_sender \cup {Encode(reply, bin_size, checksum)}
         /\ UNCHANGED r_pc

\* Packet::to_bin_buff of an Init reply into the receive buffer: the outcomes
\* the build can produce.  The assertion 9 + 6 < packet_size of
\* InitPacket::bin_size aborts a build with debug assertions only.
InitEncodeOutcomes(packet_size, checksum_size, buffer_len) ==
    IF \/ packet_size - checksum_size < HeaderSize + InitFieldsSize
       \/ EncodePanics(packet_size - checksum_size, checksum_size, buffer_len)
    THEN {"Panic"}
    ELSE IF packet_size <= HeaderSize + InitFieldsSize
    THEN {"Panic", "Sent"}
    ELSE {"Sent"}

\* The Init branch sends the Init `reply` from the receive buffer.
InitReply(reply) ==
    \E outcome \in InitEncodeOutcomes(reply.packet_size, reply.checksum_size,
                                       BUFFER_SIZE) :
       IF outcome = "Panic"
       THEN r_pc' = "panic" /\ UNCHANGED to_sender
       ELSE to_sender' = to_sender \cup {reply} /\ UNCHANGED r_pc

\* Top of the main loop: a connection that timed out is removed.
ReceiverEvict(id) ==
    /\ r_pc = "run"
    /\ id \in DOMAIN properties
    /\ Removed(id, RemoveConnection(properties[id], files))
    /\ UNCHANGED <<r_config, r_recv>>

\* The datagram is dropped: nothing but the receive buffer changes.
Dropped == UNCHANGED <<r_pc, properties, files, to_sender>>

\* Flag::Init branch.
ReceiveInit(pkt) ==
    IF ~FromBinNoSizeAndHashCheck(pkt)
    THEN Dropped
    ELSE \E outcome \in InitFromBin(pkt) :
           IF outcome = "Panic"
           THEN r_pc' = "panic" /\ UNCHANGED <<properties, files, to_sender>>
           ELSE IF outcome = "InvalidSize"
           THEN \* answer with the receiver's settings and id 0
                LET p == Min(r_config.max_packet_size, pkt.len)
                IN  /\ InitReply(InitPacket(r_config.max_window_size, p,
                                            r_config.min_checksum))
                    /\ UNCHANGED <<properties, files>>
           ELSE LET n == ReceiverNegotiate(pkt, r_config)
                IN  \E id \in AllocatedIds(properties) :
                      /\ properties' =
                             With(properties, id,
                                  ReceiverConnectionProperties(
                                      ConnectionProperties(id, n.checksum_size,
                                                           n.window_size,
                                                           n.packet_size)))
                      /\ IF id \in DOMAIN properties
                         THEN \* "Connection with this ID already exists"
                              r_pc' = "panic" /\ UNCHANGED to_sender
                         ELSE InitReply([InitPacket(n.window_size, n.packet_size,
                                                    n.checksum_size)
                                            EXCEPT !.id = id])
                      /\ UNCHANGED files

\* Flag::Data branch.
ReceiveData(pkt) ==
    IF pkt.id \notin DOMAIN properties
    THEN Dropped
    ELSE LET prop == properties[pkt.id]
             c == prop.static_properties.checksum_size
         IN  IF ~FromBinOk(pkt, c)
             THEN Dropped
             ELSE LET s == IF IsWithinWindow(pkt.seq, prop.window_position,
                                             prop.static_properties.window_size)
                           THEN SaveIntoFile(StoreData(prop, pkt.data, pkt.seq))
                           ELSE [panic |-> FALSE, prop |-> prop, written |-> << >>]
                  IN  IF s.panic
                      THEN r_pc' = "panic" /\ UNCHANGED <<properties, files, to_sender>>
                      ELSE /\ properties' = With(properties, pkt.id, s.prop)
                           /\ files' = AppendToFile(files, pkt.id, s.written)
                           /\ Reply(DataPacketNewReceiver(pkt.id, pkt.seq,
                                                          GetAcknowledge(s.prop)),
                                    HeaderSize, c)

\* Flag::Error branch.
ReceiveError(pkt) ==
    IF pkt.id \notin DOMAIN properties
    THEN Dropped
    ELSE IF ~FromBinOk(pkt, properties[pkt.id].static_properties.checksum_size)
    THEN Dropped
    ELSE Removed(pkt.id, RemoveConnection(properties[pkt.id], files))

\* An End that is refused only when parts are still buffered.
EndRefusedOnBufferedParts(prop, pkt) ==
    Cardinality(DOMAIN prop.parts_received) > 0

\* Flag::End branch, the test that refuses the End.
EndRefused(prop, pkt) ==
    \/ Cardinality(DOMAIN prop.parts_received) > 0
    \/ prop.window_position # pkt.seq

\* Flag::End branch.
ReceiveEnd(pkt) ==
    IF pkt.id \notin DOMAIN properties
    THEN Dropped
    ELSE LET prop == properties[pkt.id]
             c == prop.static_properties.checksum_size
         IN  IF ~FromBinOk(pkt, c)
             THEN Dropped
             ELSE IF EndRefused(prop, pkt)
             THEN Removed(pkt.id, RemoveConnection(prop, files))
             ELSE /\ properties' = With(properties, pkt.id,
                                        [prop EXCEPT !.is_closed = TRUE])
                  /\ Reply(EndPacket(pkt.id, prop.window_position), HeaderSize, c)
                  /\ UNCHANGED files

\* One pass of the main loop that reads a datagram from the socket.
ReceiverReceive(pkt) ==
    /\ r_pc = "run"
    /\ r_recv' = pkt
    /\ UNCHANGED r_config
    /\ IF pkt.len < HeaderSize THEN Dropped
       ELSE IF pkt.flag = "Init" THEN ReceiveInit(pkt)
       ELSE IF pkt.flag = "Data" THEN ReceiveData(pkt)
       ELSE IF pkt.flag = "Error" THEN ReceiveError(pkt)
       ELSE IF pkt.flag = "End" THEN ReceiveEnd(pkt)
       ELSE Dropped

\* ------------------------------------------------------------------------
\* The receiver's main loop with its clock (src/src/receiver/logic.rs 26-46)
\* ------------------------------------------------------------------------

\* A connection counted as timed out from the threshold on.
TimeoutedAtThreshold(id) == last_receive_time[id] <= r_now - Timeout

\* ReceiverConnectionProperties::timeouted
Timeouted(id) == last_receive_time[id] < r_now - Timeout

\* The loop over ids_to_disconnect: every connection is taken out of the map
\* and handed to remove_connection; st carries the map, the directory and the
\* packets sent so far.
RECURSIVE Disconnect(_, _)
Disconnect(ids, st) ==
    IF ids = {} \/ st.panic
    THEN st
    ELSE LET conn_id == CHOOSE id \in ids : \A other \in ids : id <= other
             r == RemoveConnection(st.properties[conn_id], st.files)
         IN  Disconnect(ids \ {conn_id},
                        [panic |-> r.panic,
                         properties |-> Without(st.properties, conn_id),
                         files |-> r.files,
                         packets |-> st.packets \cup r.packets])

\* Top of a pass of the main loop: the connections that timed out are
\* collected and removed, then the receiver blocks in recv_from.
FilterTimeouted ==
    /\ r_pc = "run"
    /\ r_at = "filter"
    /\ LET ids_to_disconnect == {id \in DOMAIN properties : Timeouted(id)}
           st == Disconnect(ids_to_disconnect,
                            [panic |-> FALSE, properties |-> properties,
                             files |-> files, packets |-> {}])
       IN  /\ properties' = st.properties
           /\ files' = st.files
           /\ to_sender' = to_sender \cup st.packets
           /\ r_pc' = IF st.panic THEN "panic" ELSE "run"
           /\ last_receive_time' =
                 [id \in DOMAIN st.properties |-> last_receive_time[id]]
    /\ r_at' = "recv"
    /\ UNCHANGED <<r_config, r_recv, r_now>>

\* The handler calls store_data for pkt on connection id: a Data datagram of
\* a connection in the map that parses and is within the window.
CallsStoreData(pkt, id) ==
    /\ pkt.len >= HeaderSize
    /\ pkt.flag = "Data" /\ pkt.id = id
    /\ id \in DOMAIN properties
    /\ FromBinOk(pkt, properties[id].static_properties.checksum_size)
    /\ IsWithinWindow(pkt.seq, properties[id].window_position,
                      properties[id].static_properties.window_size)

\* recv_from returns pkt after `waited` ticks and the pass handles it:
\* ReceiverConnectionProperties::new and store_data read the clock.
TimedReceive(pkt, waited) ==
    /\ r_at = "recv"
    /\ r_now + waited <= MaxClock
    /\ r_now' = r_now + waited
    /\ ReceiverReceive(pkt)
    /\ last_receive_time' =
          [id \in DOMAIN properties' |->
              IF id \notin DOMAIN properties \/ CallsStoreData(pkt, id)
              THEN r_now'
              ELSE last_receive_time[id]]
    /\ r_at' = "filter"

\* recv_from returns WouldBlock or TimedOut after the read timeout.
RecvTimedOut ==
    /\ r_pc = "run"
    /\ r_at = "recv"
    /\ r_now + Timeout <= MaxClock
    /\ r_now' = r_now + Timeout
    /\ r_at' = "filter"
    /\ UNCHANGED <<r_pc, r_config, properties, files, r_recv, to_sender,
                   last_receive_time>>

\* ------------------------------------------------------------------------
\* The broker, one direction (src/src/broker/logic.rs, packet_wrapper.rs)
\* ------------------------------------------------------------------------

NoEnvelope == [content |-> 0, send_at |-> 0]

\* PacketWrapper::new: the envelope is due send_in_millis after now.
PacketWrapper(content, send_in_millis) ==
    [content |-> content, send_at |-> now + send_in_millis * TicksPerMilli]

\* PacketWrapper::send_in().as_millis(): whole milliseconds until the envelope
\* is due, 0 when it is due already.
SendInMillis(wrapper) ==
    IF wrapper.send_at <= now THEN 0 ELSE (wrapper.send_at - now) \div TicksPerMilli

\* PacketWrapper::should_be_send
ShouldBeSend(wrapper) == wrapper.send_at < now

\* The envelopes BinaryHeap::peek and BinaryHeap::pop may return: the greatest
\* of the heap in the order of PacketWrapper, which compares send_at.
Greatest(heap) == {w \in heap : \A o \in heap : o.send_at <= w.send_at}

\* The send thread holds the mutex of the heap.
SendHoldsLock == send_pc \in {"peek", "pop"}

\* receiving_part, top of its loop: leave when termination was requested,
\* block in recv_from for at most a second otherwise.
ReceivingLoop ==
    /\ recv_pc = "loop"
    /\ recv_pc' = IF brk THEN "exit" ELSE "recv"
    /\ UNCHANGED <<queue, brk, send_pc, to_send, emitted, received, now>>

\* receiving_part, recv_from returns a datagram: the datagram is dropped, or
\* it is wrapped with its delay and pushed onto the heap.
ReceivingPart(delay, drop) ==
    /\ recv_pc = "recv"
    /\ ~SendHoldsLock
    /\ received < MaxEnvelopes
    /\ received' = received + 1
    /\ queue' = IF drop THEN queue
                ELSE queue \cup {PacketWrapper(received + 1, delay)}
    /\ recv_pc' = "loop"
    /\ UNCHANGED <<brk, send_pc, to_send, emitted, now>>

\* receiving_part, recv_from returns WouldBlock or TimedOut after its read
\* timeout of a second.
ReceivingTimeout ==
    /\ recv_pc = "recv"
    /\ recv_pc' = "loop"
    /\ UNCHANGED <<queue, brk, send_pc, to_send, emitted, received, now>>

\* sending_part, top of the outer loop: leave when termination was requested,
\* lock the heap otherwise.
SendingLock ==
    /\ send_pc = "loop"
    /\ send_pc' = IF brk THEN "exit" ELSE "peek"
    /\ UNCHANGED <<queue, brk, to_send, emitted, received, now, recv_pc>>

\* An inner loop that does not look at the termination flag.
SendingPeekUntilDue ==
    /\ send_pc = "peek"
    /\ send_pc' = IF \E w \in Greatest(queue) : SendInMillis(w) = 0 THEN "pop"
                  ELSE "wait"
    /\ UNCHANGED <<queue, brk, to_send, emitted, received, now, recv_pc>>

\* sending_part, one pass of the inner loop: go on to pop when termination was
\* requested or the envelope peek returns is due within the millisecond, wait
\* on the condition variable otherwise.
SendingPeek ==
    /\ send_pc = "peek"
    /\ send_pc' = IF brk THEN "pop"
                  ELSE IF \E w \in Greatest(queue) : SendInMillis(w) = 0 THEN "pop"
                  ELSE "wait"
    /\ UNCHANGED <<queue, brk, to_send, emitted, received, now, recv_pc>>

\* condvar.wait_timeout returns (notified, timed out or woken for no reason)
\* and the thread holds the mutex again.
SendingWake ==
    /\ send_pc = "wait"
    /\ send_pc' = "peek"
    /\ UNCHANGED <<queue, brk, to_send, emitted, received, now, recv_pc>>

\* sending_part after the inner loop: pop; back to the outer loop when the
\* heap is empty or the envelope popped is not due yet, send otherwise.
SendingPop ==
    /\ send_pc = "pop"
    /\ IF queue = {}
       THEN send_pc' = "loop" /\ UNCHANGED <<queue, to_send>>
       ELSE \E packet \in Greatest(queue) :
              /\ queue' = queue \ {packet}
              /\ IF ShouldBeSend(packet)
                 THEN send_pc' = "send" /\ to_send' = packet
                 ELSE send_pc' = "loop" /\ UNCHANGED to_send
    /\ UNCHANGED <<brk, emitted, received, now, recv_pc>>

\* socket.send_to of the envelope popped.
SendingSend ==
    /\ send_pc = "send"
    /\ emitted' = Append(emitted, to_send)
    /\ send_pc' = "loop"
    /\ UNCHANGED <<queue, brk, to_send, received, now, recv_pc>>

\* The termination flag is set.
Terminate ==
    /\ ~brk
    /\ brk' = TRUE
    /\ UNCHANGED <<queue, send_pc, to_send, emitted, received, now, recv_pc>>

\* Time passes.
Tick ==
    /\ now < MaxTime
    /\ now' = now + 1
    /\ UNCHANGED <<queue, brk, send_pc, to_send, emitted, received, recv_pc>>

\* ------------------------------------------------------------------------
\* The order of the broker's emissions
\* ------------------------------------------------------------------------

\* C7: whenever the send thread pops an envelope, no envelope left in the heap
\* is due earlier than the one popped: envelopes leave the heap in ascending
\* order of send_at.
C7_PopsEarliestDue ==
    [][\A packet \in queue \ queue' :
          \A other \in queue' : packet.send_at <= other.send_at]_vars

\* ------------------------------------------------------------------------
\* The receiver's output file
\* ------------------------------------------------------------------------

\* The file of connection id, as the directory holds it.
FileOf(id) == IF id \in DOMAIN files THEN files[id] ELSE NewFile

\* C1: in every reachable state the file of every receiver connection holds,
\* one after the other and in window order, one payload for each sequence
\* number 0, 1, ..., next_write_position - 1: the part at position i of the
\* file is a payload that arrived under sequence number i mod 2^16 (no
\* sequence number twice, none skipped, none out of order, across the wrap
\* past 65535 too), and the file ends just before next_write_position.
C1_FileInWindowOrder ==
    \A id \in DOMAIN properties :
        LET f == FileOf(id)
        IN  /\ Wrap(f.base + Len(f.tail)) = properties[id].next_write_position
            /\ \A k \in 1 .. Len(f.tail) : Wrap(f.tail[k]) = Wrap(f.base + k - 1)

\* A connection wrote the parts with sequence numbers 65534, 65535 and 0 at
\* once: the last two were cached ahead of the window when the first arrived.
C1_Witness ==
    /\ 1 \in DOMAIN properties /\ 1 \in DOMAIN files
    /\ files[1].base = U16 - 2
    /\ Len(files[1].tail) = 3
    /\ r_recv.flag = "Data" /\ r_recv.seq = U16 - 2
    /\ properties[1].next_write_position = 1

\* ------------------------------------------------------------------------
\* The receiver's Init branch
\* ------------------------------------------------------------------------

\* The ids of the connections a step adds to the receiver's map.
NewIds == DOMAIN properties' \ DOMAIN properties

\* The step takes a connection out of the map (timeout, Error, rejected End).
RemovesConnection == \E id \in DOMAIN properties : properties' = Without(properties, id)

C9_FreshNonZeroId ==
    [][(r_recv'.flag = "Init" /\ properties' # properties /\ ~RemovesConnection) =>
          \E id \in NewIds :
             /\ id # 0
             /\ properties' = With(properties, id, properties'[id])
             /\ \A other \in DOMAIN properties : properties'[other] = properties[other]]_vars

\* The receiver has accepted an Init while another connection was in its map.
C9_Witness ==
    /\ r_recv.flag = "Init"
    /\ Cardinality(DOMAIN properties) = 2
    /\ \E pkt \in to_sender : pkt.flag = "Init" /\ pkt.id \in DOMAIN properties

\* The connections in the receiver's map that an Init like pkt has created:
\* their parameters are the ones the receiver chooses for pkt.
ConnectionsOf(pkt) ==
    {id \in DOMAIN properties :
        LET p == properties[id].static_properties
            n == ReceiverNegotiate(pkt, r_config)
        IN  /\ p.window_size = n.window_size
            /\ p.packet_size = n.packet_size
            /\ p.checksum_size = n.checksum_size}

\* C12: while the receiver holds a connection that the sender's Init has
\* created, reading that Init again (retransmitted or duplicated) creates no
\* connection and leaves the map as it is: duplicated Inits never increase
\* the number of connections.
C12_DuplicateInitCreatesNothing ==
    [][(r_recv'.flag = "Init" /\ ConnectionsOf(r_recv') # {}) =>
          /\ NewIds = {}
          /\ (properties' = properties \/ RemovesConnection)]_vars

\* C13: a pass of the receiver's loop that reads a well-formed End of a known
\* connection accepts it exactly when parts_received is empty and
\* window_position equals the End's seq.  Accepting marks the connection
\* closed, leaves the files alone and sends End with seq = ack =
\* window_position; otherwise an Error is sent, the file is gone and the
\* connection is out of the map.
C13_EndAcceptance ==
    [][\A id \in DOMAIN properties :
          LET prop == properties[id]
              wp == prop.window_position
          IN  (/\ r_recv'.flag = "End" /\ r_recv'.id = id
               /\ FromBinOk(r_recv', prop.static_properties.checksum_size)
               /\ ReceiverReceive(r_recv')) =>
                 IF DOMAIN prop.parts_received = {} /\ wp = r_recv'.seq
                 THEN /\ properties' = With(properties, id, [prop EXCEPT !.is_closed = TRUE])
                      /\ files' = files
                      /\ \E pkt \in to_sender' :
                            /\ pkt.flag = "End" /\ pkt.id = id
                            /\ pkt.seq = wp /\ pkt.ack = wp
                 ELSE /\ properties' = Without(properties, id)
                      /\ id \notin DOMAIN files'
                      /\ \E pkt \in to_sender' : pkt.flag = "Error" /\ pkt.id = id]_vars

\* C13, for connections open or closed: the End is accepted on the same
\* test; a refused End takes the connection out of the map, and, unless an
\* earlier End has closed the connection, the file is gone and an Error is
\* sent.  Refusing an End of a closed connection sends nothing and keeps the
\* file.
C13_EndAcceptanceOpenOrClosed ==
    [][\A id \in DOMAIN properties :
          LET prop == properties[id]
              wp == prop.window_position
          IN  (/\ r_recv'.flag = "End" /\ r_recv'.id = id
               /\ FromBinOk(r_recv', prop.static_properties.checksum_size)
               /\ ReceiverReceive(r_recv')) =>
                 IF DOMAIN prop.parts_received = {} /\ wp = r_recv'.seq
                 THEN /\ properties' = With(properties, id, [prop EXCEPT !.is_closed = TRUE])
                      /\ files' = files
                      /\ \E pkt \in to_sender' :
                            /\ pkt.flag = "End" /\ pkt.id = id
                            /\ pkt.seq = wp /\ pkt.ack = wp
                 ELSE /\ properties' = Without(properties, id)
                      /\ IF prop.is_closed
                         THEN files' = files /\ to_sender' = to_sender
                         ELSE /\ id \notin DOMAIN files'
                              /\ \E pkt \in to_sender' :
                                    pkt.flag = "Error" /\ pkt.id = id]_vars

\* The receiver has accepted an End after parts were written: the connection
\* is closed, the file is there and the End reply is on the wire.
C13_Witness ==
    /\ r_recv.flag = "End"
    /\ r_recv.id \in DOMAIN properties
    /\ properties[r_recv.id].is_closed
    /\ properties[r_recv.id].window_position = r_recv.seq
    /\ r_recv.id \in DOMAIN files
    /\ Len(files[r_recv.id].tail) > 0
    /\ \E pkt \in to_sender :
          pkt.flag = "End" /\ pkt.id = r_recv.id /\ pkt.seq = r_recv.seq

C15_TimeoutEviction ==
    [][(r_at = "filter" /\ r_at' = "recv") =>
          \A id \in DOMAIN properties :
             IF last_receive_time[id] < r_now - Timeout
             THEN /\ id \notin DOMAIN properties'
                  /\ IF properties[id].is_closed
                     THEN /\ id \in DOMAIN files => id \in DOMAIN files'
                          /\ id \in DOMAIN files' => /\ id \in DOMAIN files
                                                      /\ files'[id] = files[id]
                          /\ ~\E pkt \in to_sender' \ to_sender : pkt.id = id
                     ELSE /\ id \notin DOMAIN files'
                          /\ \E pkt \in to_sender' \ to_sender :
                                pkt.flag = "Error" /\ pkt.id = id
             ELSE /\ id \in DOMAIN properties'
                  /\ properties'[id] = properties[id]
                  /\ last_receive_time'[id] = last_receive_time[id]]_vars

\* A pass has just removed a timed-out connection that was not closed, and
\* left in the map a connection whose last packet is exactly the timeout
\* old: the Error of the first is on the wire.
C15_Witness ==
    /\ r_at = "recv"
    /\ \E pkt \in to_sender : pkt.flag = "Error" /\ pkt.id \notin DOMAIN properties
    /\ \E id \in DOMAIN properties : r_now - last_receive_time[id] = Timeout

\* The sender has returned a failure from a phase whose retry counter ran out.
BudgetExhausted == s_pc = "failed" /\ attempts >= s_config.repetition

\* The receiver's directory holds a file of the sender's connection (of any
\* connection, when the sender never got one).
HoldsFile ==
    IF s_props = NoProps THEN DOMAIN files # {} ELSE s_props.id \in DOMAIN files

\* C16: once the sender has failed because the retry budget of a phase ran
\* out, the receiver's directory at last holds no file of the connection.
C16_FailedTransferLeavesNoFile ==
    [](BudgetExhausted => <>(~HoldsFile))

\* The payload of part i of the file that the sender of connection id sends.
PayloadOf(id, i) == id * U16 + i

\* Connection id and its file are the same before and after the step.
Untouched(id) ==
    /\ id \in DOMAIN properties <=> id \in DOMAIN properties'
    /\ id \in DOMAIN properties => properties'[id] = properties[id]
    /\ id \in DOMAIN files <=> id \in DOMAIN files'
    /\ id \in DOMAIN files => files'[id] = files[id]

\* Every part in a file of the directory was sent on the file's connection,
\* and the parts are the sender's parts in order.
OwnParts ==
    \A id \in DOMAIN files :
       \A k \in 1 .. Len(files[id].tail) :
          files[id].tail[k] = PayloadOf(id, files[id].base + k - 1)

LargeEnough(p) ==
    p.flag = "Init" =>
       /\ p.packet_size > HeaderSize + InitFieldsSize
       /\ p.packet_size - p.checksum_size >= HeaderSize + InitFieldsSize

\* C18: for a packet value p (an Init with packet_size large enough for its
\* fields) and a checksum width k, p.to_bin(k) returns, and from_bin of these
\* bytes with k returns Ok with the variant, header fields, Init parameters
\* and payload of p.
C18_CodecRoundTrip ==
    (LargeEnough(c_p) /\ ~c_damaged) =>
       /\ c_pc # "panic"
       /\ c_pc = "decoded" => c_result = Ok(c_p)

\* An Init that declares a checksum of 16 bytes went through the codec with
\* the widest checksum, and so did a Data packet with a payload.
C18_Witness ==
    /\ c_pc = "decoded" /\ ~c_damaged
    /\ c_k = 64
    /\ c_p.flag = "Init" /\ c_p.checksum_size = 16 /\ c_p.window_size = 3
    /\ c_result.kind = "Ok" /\ c_result.packet.packet_size = 40

\* The xor of the bytes of memory at the positions in `at`.
RECURSIVE XorOver(_, _)
XorOver(memory, at) ==
    IF at = {} THEN 0
    ELSE LET j == CHOOSE j \in at : TRUE
         IN  Xor(memory[j], XorOver(memory, at \ {j}))

\* The k-byte xor fold of body: byte i is the xor of the bytes of body at
\* the offsets j with j mod k = i (offsets count from 0).
XorFold(body, k) ==
    [i \in 1 .. k |-> XorOver(body, {j \in 1 .. Len(body) : (j - 1) % k = i - 1})]

\* C19: the datagram that to_bin(k) returns is the body followed by the
\* k-byte xor fold of the body (nothing for k = 0); from_bin returns Ok only
\* when the last k bytes are the fold of the bytes before them, and returns
\* ChecksumNotMatch when they are not and the bytes before them parse; with
\* k = 0 it never returns ChecksumNotMatch.
C19_ChecksumFold ==
    LET n == Len(c_memory)
        body == SubSeq(c_memory, 1, n - c_k)
        tail == SubSeq(c_memory, n - c_k + 1, n)
    IN  /\ (c_pc = "encoded" /\ ~c_damaged) =>
              /\ n = BinSize(c_p) + c_k
              /\ tail = XorFold(body, c_k)
        /\ (c_pc = "decoded" /\ c_result.kind = "Ok") => tail = XorFold(body, c_k)
        /\ (/\ c_pc \in {"decoded", "panic"} /\ c_result # NoResult
            /\ n >= c_k + HeaderSize
            /\ tail # XorFold(body, c_k)
            /\ \A package \in BodyFromBin(body) : package.kind = "Ok") =>
              c_result = ChecksumNotMatch
        /\ c_result.kind = "ChecksumNotMatch" => c_k > 0 /\ tail # XorFold(body, c_k)

\* A datagram whose body is not a whole number of 4-byte blocks had a byte
\* replaced on the way and was refused for its checksum.
C19_Witness ==
    /\ c_pc = "decoded" /\ c_damaged
    /\ c_k = 4
    /\ (Len(c_memory) - c_k) % c_k # 0
    /\ c_p.flag = "Data"
    /\ c_result = ChecksumNotMatch

\* C20: from_bin of a datagram of at least 9 + k bytes whose flag byte is
\* not 1, 2, 4 or 8 returns Err(InvalidFlag(byte)).
C20_InvalidFlagIsAnError ==
    (/\ c_result # NoResult
     /\ Len(c_memory) >= HeaderSize + c_k
     /\ c_memory[9] \notin {1, 2, 4, 8}) =>
       c_result = InvalidFlag(c_memory[9])

\* The datagram is too short for its framing with checksum width k: shorter
\* than a header and the checksum, or an Init whose bytes before the checksum
\* do not hold its three fields or are fewer than the packet_size -
\* checksum_size its fields declare.
TooShort(memory, k) ==
    \/ Len(memory) < HeaderSize + k
    \/ /\ memory[9] = 1
       /\ \/ Len(memory) - k < HeaderSize + InitFieldsSize
          \/ /\ ReadU16(memory, HeaderSize + 2) >= ReadU16(memory, HeaderSize + 4)
             /\ Len(memory) - k < ReadU16(memory, HeaderSize + 2)
                                      - ReadU16(memory, HeaderSize + 4)

\* C21: from_bin of a datagram that is too short for its framing returns
\* Err(InvalidSize(expected, actual)) with actual the length of the datagram.
C21_TooShortIsInvalidSize ==
    (c_result # NoResult /\ TooShort(c_memory, c_k)) =>
       /\ c_result.kind = "InvalidSize"
       /\ c_result.actual = Len(c_memory)

\* C22: a pass of the receiver that reads an Init whose declared packet_size
\* is at most 9 + 6 + checksum_size, and does not abort, creates no
\* connection.
C22_SmallInitRejected ==
    [][(/\ ReceiverReceive(r_recv')
        /\ r_pc' = "run"
        /\ r_recv'.flag = "Init"
        /\ r_recv'.packet_size <= HeaderSize + InitFieldsSize + r_recv'.checksum_size) =>
          NewIds = {}]_vars

\* C23: every Data packet the sender has put on the wire is at most the
\* negotiated packet_size long (header, payload and checksum), and the
\* negotiated packet_size is at most the receiver's max_packet_size.
C23_DataFitsNegotiatedSize ==
    \A pkt \in to_receiver :
       pkt.flag = "Data" =>
          /\ pkt.len <= s_props.packet_size
          /\ s_props.packet_size <= r_config.max_packet_size

\* The receiver allows less than the sender proposed, and a Data packet of
\* exactly the receiver's max_packet_size is on the wire.
C23_Witness ==
    /\ s_config.packet_size > r_config.max_packet_size
    /\ \E pkt \in to_receiver :
          /\ pkt.flag = "Data" /\ pkt.seq = 1
          /\ pkt.len = r_config.max_packet_size

\* C24: once the termination flag is set, the send thread and the receive
\* thread of a direction leave their loops, whatever the heap holds and
\* whether or not a datagram arrives afterwards.
C24_BrokerCancellation ==
    brk ~> (send_pc = "exit" /\ recv_pc = "exit")

\* Both threads have left their loops while an envelope that was not yet due
\* stayed in the heap.
C24_Witness ==
    /\ brk /\ send_pc = "exit" /\ recv_pc = "exit"
    /\ \E w \in queue : w.send_at > now

\* C25: a connection of the receiver's map that is closed holds no open file
\* handle.
C25_ClosedHoldsNoFile ==
    \A id \in DOMAIN properties :
       properties[id].is_closed => ~properties[id].file

\* C26: in the Data and Closing phases a packet that decodes and carries the
\* id of another connection is dropped whatever its flag: the sender goes on
\* with the phase it is in, window, loaded parts and retry counter unchanged.
C26_ForeignIdDropped ==
    [][(/\ s_pc \in {"recv_data", "end_recv"}
        /\ s_pc' # s_pc
        /\ s_recv'.flag \in {"Init", "Data", "End", "Error"}
        /\ SenderFromBinOk(s_recv', s_props.checksum_size)
        /\ s_recv'.id # s_props.id)
       => /\ s_pc' = (IF s_pc = "recv_data" THEN "send_data" ELSE "end_send")
          /\ UNCHANGED <<attempts, s_window_position, loaded_parts>>]_vars

\* C27: in every phase of the sender a datagram that fails to decode is
\* dropped: the sender goes back to the top of the loop of its phase, it
\* neither fails the connection nor aborts.
C27_DecodeFailureDropped ==
    [][(/\ s_pc \in {"init_recv", "recv_data", "end_recv"}
        /\ s_pc' # s_pc
        /\ s_recv'.flag = "Corrupt")
       => s_pc' = (CASE s_pc = "init_recv" -> "init_send"
                     [] s_pc = "recv_data" -> "send_data"
                     [] s_pc = "end_recv" -> "end_send")]_vars

\* C28: create_connection transmits at most `repetition` Init packets,
\* whatever replies arrive.
C28_InitAttemptsBounded ==
    inits_sent <= s_config.repetition

\* C29: within the Data phase the attempts counter changes in two ways only:
\* a receive timeout adds one, and a Data packet whose acknowledgement moves
\* the window sets it to 0.  With attempts at `repetition` and the transfer
\* not complete the only step of the phase is the return of failure; the
\* phase is left for the Closing phase only when is_complete() holds, and it
\* fails at the top of the loop only with the attempts used up.
C29_DataPhaseAttempts ==
    [][/\ (/\ s_pc \in {"send_data", "recv_data"}
           /\ s_pc' \in {"send_data", "recv_data"}
           /\ attempts' # attempts) =>
             \/ /\ s_pc = "recv_data" /\ s_recv' = NoPacket
                /\ attempts' = attempts + 1
             \/ /\ s_pc = "recv_data" /\ s_recv'.flag = "Data"
                /\ s_recv'.id = s_props.id
                /\ ack_moved' /\ s_window_position' # s_window_position
                /\ attempts' = 0
       /\ (s_pc = "recv_data" /\ s_recv' = NoPacket) => attempts' = attempts + 1
       /\ (/\ s_pc = "recv_data" /\ s_pc' = "send_data"
           /\ s_window_position' # s_window_position) => attempts' = 0
       /\ (/\ s_pc = "send_data" /\ attempts >= s_config.repetition
           /\ ~IsComplete) => s_pc' = "failed"
       /\ (s_pc = "send_data" /\ s_pc' = "failed") =>
             (attempts >= s_config.repetition /\ ~IsComplete)
       /\ (s_pc = "send_data" /\ s_pc' = "end_send") => IsComplete]_vars

\* The Data phase has failed with its attempts used up, after an
\* acknowledgement had moved the window and set the counter to 0.
C29_Witness ==
    /\ s_pc = "failed" /\ s_recv = NoPacket
    /\ attempts = s_config.repetition /\ ~IsComplete
    /\ ack_moved /\ loaded_parts # NoParts

\* C30: in the Data phase a valid End of the sender's connection makes it
\* send one Error packet with its id and fail; a valid Error of its
\* connection makes it fail, nothing sent; an Init leaves window, loaded
\* parts and attempts as they were and the phase goes on.
C30_DataPhaseEndErrorInit ==
    [][(/\ s_pc = "recv_data" /\ SendDataReceive(s_recv')
        /\ SenderFromBinOk(s_recv', s_props.checksum_size)) =>
          /\ (s_recv'.flag = "End" /\ s_recv'.id = s_props.id) =>
                /\ s_pc' = "failed"
                /\ s_sent' = Encode(ErrorPacket(s_props.id), HeaderSize,
                                    s_props.checksum_size)
                /\ to_receiver' = to_receiver \cup {s_sent'}
          /\ (s_recv'.flag = "Error" /\ s_recv'.id = s_props.id) =>
                /\ s_pc' = "failed"
                /\ UNCHANGED <<s_sent, to_receiver>>
          /\ s_recv'.flag = "Init" =>
                /\ s_pc' = "send_data"
                /\ UNCHANGED <<s_window_position, loaded_parts, attempts,
                               s_sent, to_receiver>>]_vars

\* C31: in the Closing phase a packet of the sender's connection that is not
\* the End that confirms the transfer makes the sender send an Error packet
\* and fail, a Data or an Error packet included; an Init is ignored.
C31_ClosingUnexpectedFails ==
    [][(/\ s_pc = "end_recv" /\ EndReceive(s_recv')
        /\ SenderFromBinOk(s_recv', s_props.checksum_size)
        /\ s_recv'.id = s_props.id) =>
          IF s_recv'.flag = "Init"
          THEN s_pc' = "end_send" /\ UNCHANGED <<s_sent, to_receiver>>
          ELSE IF /\ s_recv'.flag = "End"
                  /\ s_recv'.seq = s_window_position
                  /\ s_recv'.ack = s_window_position
          THEN s_pc' = "done"
          ELSE /\ s_pc' = "failed"
               /\ s_sent' = Encode(ErrorPacket(s_props.id), HeaderSize,
                                   s_props.checksum_size)
               /\ to_receiver' = to_receiver \cup {s_sent'}]_vars

\* C31, with the packets told apart: an End of the connection with another
\* seq or ack makes the sender send Error and fail; an Error makes it fail
\* with nothing sent; a Data and an Init are ignored, the End is sent again.
C31_ClosingUnexpected ==
    [][(/\ s_pc = "end_recv" /\ EndReceive(s_recv')
        /\ SenderFromBinOk(s_recv', s_props.checksum_size)
        /\ s_recv'.id = s_props.id) =>
          /\ UNCHANGED <<attempts, s_window_position, loaded_parts>>
          /\ IF s_recv'.flag \in {"Init", "Data"}
             THEN s_pc' = "end_send" /\ UNCHANGED <<s_sent, to_receiver>>
             ELSE IF s_recv'.flag = "Error"
             THEN s_pc' = "failed" /\ UNCHANGED <<s_sent, to_receiver>>
             ELSE IF /\ s_recv'.seq = s_window_position
                     /\ s_recv'.ack = s_window_position
             THEN s_pc' = "done" /\ UNCHANGED <<s_sent, to_receiver>>
             ELSE /\ s_pc' = "failed"
                  /\ s_sent' = Encode(ErrorPacket(s_props.id), HeaderSize,
                                      s_props.checksum_size)
                  /\ to_receiver' = to_receiver \cup {s_sent'}]_vars

\* The sender has sent its End, has read a Data packet of its connection and
\* is about to send the End again.
C31_Witness ==
    /\ s_pc = "end_send" /\ s_sent.flag = "End"
    /\ s_recv.flag = "Data" /\ s_recv.id = s_props.id
    /\ attempts < s_config.repetition

\* C32: a pass of the receiver's loop that reads a valid Data packet of a
\* known connection sends exactly one datagram, a Data reply with the seq
\* received and ack = (window_position - 1) mod 2^16 for the window_position
\* after the pass; when the seq is outside the window, (seq - window_position)
\* mod 2^16 >= window_size, the connection and the files are as before.
C32_DataReply ==
    [][\A id \in DOMAIN properties :
          LET prop == properties[id]
              c == prop.static_properties.checksum_size
          IN  (/\ r_recv'.flag = "Data" /\ r_recv'.id = id
               /\ FromBinOk(r_recv', c)
               /\ ReceiverReceive(r_recv')) =>
                 /\ id \in DOMAIN properties'
                 /\ to_sender' \ to_sender =
                       {Encode(DataPacketNewReceiver(
                                   id, r_recv'.seq,
                                   Wrap(properties'[id].window_position - 1 + U16)),
                               HeaderSize, c)}
                 /\ Wrap(r_recv'.seq - prop.window_position + U16)
                        >= prop.static_properties.window_size =>
                       /\ properties' = properties
                       /\ files' = files]_vars

\* C33: between two passes of the receiver's loop every connection has
\* next_write_position = window_position, and every key k of parts_received
\* lies ahead of window_position inside the window:
\* 0 < (k - window_position) mod 2^16 < window_size.
C33_ReceiverWindow ==
    \A id \in DOMAIN properties :
        LET prop == properties[id]
        IN  /\ prop.next_write_position = prop.window_position
            /\ \A k \in DOMAIN prop.parts_received :
                  /\ 0 < Wrap(k - prop.window_position + U16)
                  /\ Wrap(k - prop.window_position + U16)
                        < prop.static_properties.window_size

\* C34: in every state of the sender all keys of loaded_parts lie in
\* [window_position, window_position + window_size) mod 2^16, and no more
\* than window_size parts are loaded.
C34_SenderWindow ==
    /\ \A k \in DOMAIN loaded_parts :
          Wrap(k - s_window_position + U16) < s_props.window_size
    /\ Cardinality(DOMAIN loaded_parts) <= s_props.window_size

\* The window of one part is full again, across the wrap of the sequence
\* numbers, after an acknowledgement has moved it.
C34_Witness ==
    /\ s_pc = "recv_data" /\ ack_moved
    /\ s_props.window_size = 1
    /\ s_window_position = U16 - 1
    /\ DOMAIN loaded_parts = {U16 - 1}

\* C35: a pass of the receiver's loop that reads a valid Data packet (inside
\* or outside the window) or a valid End of a connection that stays in the
\* map sets the connection's last_receive_time to the time of the pass.
C35_LastReceiveTimeRefreshed ==
    [][\A id \in DOMAIN properties :
          (/\ TimedReceive(r_recv', r_now' - r_now)
           /\ r_recv'.flag \in {"Data", "End"} /\ r_recv'.id = id
           /\ FromBinOk(r_recv', properties[id].static_properties.checksum_size)
           /\ id \in DOMAIN properties') =>
             last_receive_time'[id] = r_now']_vars

\* ------------------------------------------------------------------------
\* The transfer, end to end
\* ------------------------------------------------------------------------

\* The parts of the sender's input file, in order.
InputFile == [k \in 1 .. input_len |-> k - 1]

\* C2: whenever the sender has terminated with success ("File receive
\* confirmed"), the receiver's directory holds a file named by the connection
\* id whose content is the sender's input file.
C2_SuccessMeansIdenticalFile ==
    s_pc = "done" =>
        /\ s_props.id \in DOMAIN files
        /\ files[s_props.id].base = 0
        /\ files[s_props.id].tail = InputFile

\* The sender has left sender(): with success, with an error, or by a panic.
SenderTerminated == s_pc \in {"done", "failed", "panic"}

\* The receiver has given up the sender's connection: an Error packet with
\* the connection's id is on the wire.
OwnConnectionLost ==
    \E pkt \in to_sender : pkt.flag = "Error" /\ pkt.id = s_props.id

\* C3: if no phase ever uses up its retry budget and the receiver never gives
\* up the sender's connection, a started transfer that comes to an end ends
\* with success: the sender reaches is_complete, the End handshake succeeds
\* and the sender terminates with "File receive confirmed".
C3_TransferCompletes ==
    (/\ [](attempts < s_config.repetition)
     /\ []~OwnConnectionLost
     /\ <>SenderTerminated) => <>(s_pc = "done")

\* C6: for all (base, size, val) in u16^3, size = 0 and wrapping windows
\* included, is_within_window(val, base) with window_size = size is true
\* exactly when (val - base) mod 2^16 < size.
C6_WindowPredicate ==
    win_pc = "returned" =>
        (is_within <=> (Wrap(arg_ack - arg_window_position + U16) < cp_window_size))

\* ------------------------------------------------------------------------
\* Claims about the sender's window
\* ------------------------------------------------------------------------

\* val lies in the window [base, base + size) of sequence numbers modulo 2^16.
InWindow(val, base, size) == Wrap(val - base + U16) < size

\* The keys base .. last inclusive, in window order.
WindowRange(base, last) == {Wrap(base + i) : i \in 0 .. Wrap(last - base + U16)}

\* The step handles an acknowledgement (a Data packet of this connection).
AckStep ==
    /\ s_pc = "recv_data" /\ s_pc' # "recv_data"
    /\ s_recv'.flag = "Data" /\ s_recv'.id = s_props.id
    /\ SenderFromBinOk(s_recv', s_props.checksum_size)

\* C4: acknowledge(a) with a inside [window_position, window_position +
\* window_size) removes exactly the keys window_position .. a from
\* loaded_parts, keeps every other key, sets window_position to (a + 1) mod
\* 2^16 and returns true.
C4_AcknowledgeInWindow ==
    [][(AckStep /\ InWindow(s_recv'.ack, s_window_position, s_props.window_size)) =>
        /\ s_pc' = "send_data"
        /\ ack_moved'
        /\ s_window_position' = Wrap(s_recv'.ack + 1)
        /\ DOMAIN loaded_parts' =
               DOMAIN loaded_parts \ WindowRange(s_window_position, s_recv'.ack)
        /\ \A k \in DOMAIN loaded_parts' : loaded_parts'[k] = loaded_parts[k]]_vars

\* C5: acknowledge(a) with a outside the current window is ignored:
\* window_position and loaded_parts are unchanged, it returns false and the
\* attempts counter of send_data is not reset.
C5_AcknowledgeOutsideWindow ==
    [][(AckStep /\ ~InWindow(s_recv'.ack, s_window_position, s_props.window_size)) =>
        /\ s_pc' = "send_data"
        /\ ~ack_moved'
        /\ s_window_position' = s_window_position
        /\ loaded_parts' = loaded_parts
        /\ attempts' = attempts]_vars

\* ------------------------------------------------------------------------
\* Claims about the sender's handshake
\* ------------------------------------------------------------------------

\* C10: when the Init phase ends with an established connection, the
\* connection's packet_size and window_size are the minimum, and its
\* checksum_size the maximum, of the value in the most recently transmitted
\* Init and the value in the accepted Init reply.
C10_NegotiatedParameters ==
    [][(s_pc = "init_recv" /\ s_pc' = "send_data") =>
        /\ s_sent.flag = "Init" /\ s_recv'.flag = "Init"
        /\ s_props'.id = s_recv'.id
        /\ s_props'.packet_size = Min(s_sent.packet_size, s_recv'.packet_size)
        /\ s_props'.window_size = Min(s_sent.window_size, s_recv'.window_size)
        /\ s_props'.checksum_size = Max(s_sent.checksum_size, s_recv'.checksum_size)]_vars

\* A connection established after a renegotiation (the Init last sent is
\* not the configured one) whose reply lowered the window and raised the
\* checksum.
C10_Witness ==
    /\ s_pc = "send_data" /\ s_props.id # 0
    /\ s_sent.flag = "Init" /\ s_recv.flag = "Init"
    /\ s_sent.packet_size < s_config.packet_size
    /\ s_sent.packet_size < s_recv.packet_size
    /\ s_props.window_size < s_sent.window_size
    /\ s_props.checksum_size > s_sent.checksum_size

\* C11: the sender never establishes a connection with id 0.  An Init reply
\* with id 0 that parses only updates init_packet (min, min, max), leaves the
\* retry counter and the connection state alone and sends nothing; the next
\* pass of the loop transmits the updated init_packet; and the Init phase
\* ends with a connection only on a reply whose id is not 0, which becomes
\* the connection's id.
C11_NoConnectionWithIdZero ==
    [][/\ (s_pc = "init_recv" /\ s_recv'.flag = "Init" /\ s_recv'.id = 0) =>
            /\ s_pc' = "init_send"
            /\ init_packet' = SenderNegotiate(init_packet, s_recv')
            /\ attempts' = attempts
            /\ s_props' = s_props
            /\ to_receiver' = to_receiver
       /\ (s_pc = "init_send" /\ s_pc' = "init_recv") =>
            /\ s_sent' = init_packet
            /\ init_packet \in to_receiver'
       /\ (s_pc = "init_recv" /\ s_pc' = "send_data") =>
            /\ s_recv'.id # 0
            /\ s_props'.id = s_recv'.id]_vars

\* The sender has retransmitted its Init with the smaller packet_size of an
\* id-0 reply and waits for the answer, still without a connection.
C11_Witness ==
    /\ s_pc = "init_recv"
    /\ s_recv.flag = "Init" /\ s_recv.id = 0
    /\ s_sent.flag = "Init"
    /\ s_sent.packet_size = s_recv.packet_size
    /\ s_sent.packet_size < s_config.packet_size
    /\ s_props = NoProps

C37_LoadedPartsContiguous ==
    [][/\ DOMAIN loaded_parts' =
            {Wrap(s_window_position' + i) :
                i \in 0 .. (Cardinality(DOMAIN loaded_parts') - 1)}
       /\ \A pkt \in to_sender' :
            (/\ pkt.flag = "Data" /\ pkt.id = s_props'.id
             /\ s_pc' \in {"send_data", "recv_data"}
             /\ IsWithinWindow(pkt.ack, s_window_position', s_props'.window_size))
               => pkt.ack \in DOMAIN loaded_parts'
       /\ s_pc \in {"send_data", "recv_data"} => s_pc' # "panic"]_vars

\* C39: from the End that closes a connection on, no step of the receiver
\* changes or deletes the connection's file or moves its window_position,
\* whatever packet arrives for the connection and whenever it times out.
C39_ClosedIsFrozen ==
    [][\A id \in DOMAIN properties :
          properties[id].is_closed =>
             /\ id \in DOMAIN files <=> id \in DOMAIN files'
             /\ FileOf(id)' = FileOf(id)
             /\ id \in DOMAIN properties' =>
                   properties'[id].window_position = properties[id].window_position]_vars

\* C40: while no termination is requested, every envelope the send thread
\* pops from the heap is due and is the one it sends next; together with the
\* send that follows each pop, no envelope pushed is lost.
C40_PoppedIsSent ==
    [][~brk => \A packet \in queue \ queue' :
                  /\ packet.send_at <= now
                  /\ send_pc' = "send"
                  /\ to_send' = packet]_vars

\* C38: once create_connection has returned a connection, the connection
\* the receiver stores under the same id has the sender's checksum_size, and
\* a window_size and a packet_size that are not below the sender's.
C38_HandshakeAgreement ==
    (s_pc = "send_data" /\ s_props.id \in DOMAIN properties) =>
        LET stored == properties[s_props.id].static_properties
        IN  /\ stored.checksum_size = s_props.checksum_size
            /\ s_props.window_size <= stored.window_size
            /\ s_props.packet_size <= stored.packet_size

\* The connection was made on the delayed reply to the first Init, after an
\* id-0 reply had lowered the sender's packet_size: the sender's packet_size
\* is below the one the receiver stores.
C38_Witness ==
    /\ s_pc = "send_data" /\ s_props.id \in DOMAIN properties
    /\ s_props.packet_size
          < properties[s_props.id].static_properties.packet_size
    /\ s_props.window_size < s_config.window_size
    /\ \E pkt \in to_sender : pkt.flag = "Init" /\ pkt.id = 0

\* ------------------------------------------------------------------------
\* Specifications
\* ------------------------------------------------------------------------

SenderIdle ==
    /\ s_pc = "idle"
    /\ s_config = [window_size |-> 0, packet_size |-> 0, checksum_size |-> 0,
                   repetition |-> 0]
    /\ init_packet = NoPacket
    /\ attempts = 0
    /\ inits_sent = 0
    /\ s_recv = NoPacket
    /\ ack_moved = FALSE
    /\ s_props = NoProps
    /\ s_window_position = 0
    /\ loaded_parts = NoParts
    /\ file_read = FALSE
    /\ input_pos = 0
    /\ input_len = 0
    /\ input_last = 0
    /\ s_sent = NoPacket
    /\ to_receiver = {}

\* The clock of the main loop is not modelled: timeouts happen at any moment.
TimerIdle ==
    /\ r_now = 0
    /\ last_receive_time = NoParts
    /\ r_at = "idle"

ReceiverIdle ==
    /\ r_pc = "idle"
    /\ r_config = [max_window_size |-> 0, max_packet_size |-> 0, min_checksum |-> 0]
    /\ properties = NoParts
    /\ files = NoParts
    /\ r_recv = NoPacket
    /\ to_sender = {}
    /\ TimerIdle

BrokerIdle ==
    /\ queue = {}
    /\ brk = FALSE
    /\ send_pc = "loop"
    /\ to_send = NoEnvelope
    /\ emitted = << >>
    /\ received = 0
    /\ now = 0
    /\ recv_pc = "loop"

\* The window predicate on its own, on samples of u16^3.
InitWindow ==
    /\ arg_ack \in U16Samples
    /\ arg_window_position \in U16Samples
    /\ cp_window_size \in U16Samples
    /\ is_within = FALSE
    /\ win_pc = "call"
    /\ CodecIdle
    /\ SenderIdle
    /\ ReceiverIdle
    /\ BrokerIdle

WindowNext == CallIsWithinWindow /\ UNCHANGED <<senderVars, receiverVars, brokerVars>>

SpecWindow == InitWindow /\ [][WindowNext]_vars

\* Sender configurations of the modelled runs (window, packet, checksum).
SenderConfigs ==
    {[window_size |-> 3, packet_size |-> 1500, checksum_size |-> 0,
      repetition |-> MaxRepetition],
     [window_size |-> 15, packet_size |-> 1500, checksum_size |-> 16,
      repetition |-> MaxRepetition]}

\* The sender on its own, fed with any datagram the socket may deliver.  A
\* run starts at create_connection, or in the Data phase of a connection that
\* has moved `start` parts in order already (window_position = start mod
\* 2^16, nothing loaded).
InitSender ==
    /\ WindowIdle
    /\ ReceiverIdle
    /\ BrokerIdle
    /\ \E n \in 0 .. MaxParts :
         \/ /\ s_config \in SenderConfigs
            /\ init_packet = InitPacket(s_config.window_size, s_config.packet_size,
                                        s_config.checksum_size)
            /\ s_pc = "init_send"
            /\ s_props = NoProps
            /\ s_window_position = 0
            /\ input_pos = 0
            /\ input_len = n
         \/ \E w \in WindowSizes, start \in Starts :
              /\ (start = 0 \/ w > 0)
              /\ s_config = [window_size |-> w, packet_size |-> 1500,
                             checksum_size |-> 0, repetition |-> MaxRepetition]
              /\ init_packet = InitPacket(w, 1500, 0)
              /\ s_pc = "send_data"
              /\ s_props = ConnectionProperties(1, 0, w, 1500)
              /\ s_window_position = Wrap(start)
              /\ input_pos = start
              /\ input_len = start + n
    /\ input_last \in {1, BUFFER_SIZE}
    /\ attempts = 0
    /\ inits_sent = 0
    /\ s_recv = NoPacket
    /\ s_sent = NoPacket
    /\ ack_moved = FALSE
    /\ loaded_parts = NoParts
    /\ file_read = FALSE
    /\ to_receiver = {}

\* A datagram shorter than a packet header.
ShortPacket == [NoPacket EXCEPT !.flag = "Corrupt", !.len = HeaderSize - 1]

\* Datagrams the sender's socket may deliver in the Init phase: Init replies
\* (with a connection id, or id 0 after an undersized Init), a reply cut
\* short on the way, an Error packet and damaged datagrams.
InitReplies ==
    {[InitPacket(w, p, c) EXCEPT !.id = id] :
        w \in {1, 15}, p \in {100, 2000}, c \in {0, 16}, id \in {0, 1}}
    \cup {[InitPacket(15, 1500, 0) EXCEPT !.id = 1, !.len = 20],
          Encode(ErrorPacket(1), HeaderSize, 0), ShortPacket,
          [CorruptPacket EXCEPT !.len = 1500]}

\* Datagrams the sender's socket may deliver in the Data and Closing phases.
SenderInputs ==
    {Encode(DataPacketNewReceiver(id, 0, Wrap(s_window_position + d + U16)),
            HeaderSize, s_props.checksum_size) :
        id \in {s_props.id, s_props.id + 1}, d \in (0 - MaxSkew) .. MaxSkew}
    \cup {Encode(EndPacket(id, Wrap(s_window_position + d)), HeaderSize,
                 s_props.checksum_size) :
            id \in {s_props.id, s_props.id + 1}, d \in {0, 1}}
    \cup {[Encode(EndPacket(s_props.id, s_window_position), HeaderSize,
                   s_props.checksum_size) EXCEPT !.ack = Wrap(s_window_position + 1)]}
    \cup {Encode(ErrorPacket(id), HeaderSize, s_props.checksum_size) :
            id \in {s_props.id, s_props.id + 1}}
    \cup {[InitPacket(s_props.window_size, s_props.packet_size, s_props.checksum_size)
              EXCEPT !.id = id] : id \in {s_props.id, s_props.id + 1}}
    \cup {ShortPacket}
    \cup (IF s_props.checksum_size > 0
          THEN {[CorruptPacket EXCEPT !.len = HeaderSize + s_props.checksum_size]}
          ELSE {})

SenderNext ==
    \/ InitSend /\ UNCHANGED <<windowVars, receiverVars, brokerVars>>
    \/ InitExhausted /\ UNCHANGED <<windowVars, receiverVars, brokerVars>>
    \/ InitTimeout /\ UNCHANGED <<windowVars, receiverVars, brokerVars>>
    \/ \E pkt \in InitReplies : InitReceive(pkt) /\ UNCHANGED <<windowVars, receiverVars, brokerVars>>
    \/ SendDataIteration /\ UNCHANGED <<windowVars, receiverVars, brokerVars>>
    \/ SendDataExit /\ UNCHANGED <<windowVars, receiverVars, brokerVars>>
    \/ SendDataTimeout /\ UNCHANGED <<windowVars, receiverVars, brokerVars>>
    \/ \E pkt \in SenderInputs : SendDataReceive(pkt) /\ UNCHANGED <<windowVars, receiverVars, brokerVars>>
    \/ EndSend /\ UNCHANGED <<windowVars, receiverVars, brokerVars>>
    \/ EndExhausted /\ UNCHANGED <<windowVars, receiverVars, brokerVars>>
    \/ EndTimeout /\ UNCHANGED <<windowVars, receiverVars, brokerVars>>
    \/ \E pkt \in SenderInputs : EndReceive(pkt) /\ UNCHANGED <<windowVars, receiverVars, brokerVars>>

SpecSender == InitSender /\ [][SenderNext]_vars

\* Receiver configurations of the modelled runs.
ReceiverConfigs ==
    {[max_window_size |-> 3, max_packet_size |-> 1500, min_checksum |-> 0],
     [max_window_size |-> U16 - 1, max_packet_size |-> 1500, min_checksum |-> 0],
     [max_window_size |-> 3, max_packet_size |-> 1500, min_checksum |-> 16]}

\* The receiver on its own, fed with any datagram the socket may deliver.  A
\* run starts with no connection, or with one connection that has received
\* and written `start` parts in order already.
InitReceiver ==
    /\ WindowIdle
    /\ SenderIdle
    /\ BrokerIdle
    /\ TimerIdle
    /\ r_pc = "run"
    /\ r_config \in ReceiverConfigs
    /\ r_recv = NoPacket
    /\ to_sender = {}
    /\ \/ properties = NoParts /\ files = NoParts
       \/ \E w \in {2, U16 - 1} :
            /\ w <= r_config.max_window_size
            /\ r_config.min_checksum = 0
            /\ properties =
                 With(NoParts, 1,
                      [ReceiverConnectionProperties(ConnectionProperties(1, 0, w, 1500))
                          EXCEPT !.window_position = Wrap(U16 - 2),
                                 !.next_write_position = Wrap(U16 - 2),
                                 !.file = TRUE])
            /\ files = With(NoParts, 1, [base |-> U16 - 2, tail |-> << >>])

\* Init datagrams the receiver's socket may deliver: proposals of several
\* sizes, one that holds its three fields and nothing more, one cut short on
\* the way, one declaring a checksum larger than its packet and one too short
\* for its checksum.
InitProposals ==
    {InitPacket(0, 1000, 0), InitPacket(2, 1000, 0), InitPacket(U16 - 1, 2000, 0),
     InitPacket(2, 30, 0), InitPacket(2, 1000, 16), InitPacket(2, 15, 0),
     [InitPacket(2, 1000, 0) EXCEPT !.len = 500],
     [InitPacket(2, 8, 16) EXCEPT !.len = 100],
     [InitPacket(2, 20, 10) EXCEPT !.len = 20]}

\* Parts the file of connection id has grown by in the modelled part of the run.
Written(id) == IF id \in DOMAIN files THEN Len(files[id].tail) ELSE 0

\* Data datagrams the receiver's socket may deliver for its connections: the
\* parts of the file around the one the connection waits for, and, for a part
\* of the second round of the sequence space, the part of the first round
\* that travelled under the same sequence number (a copy that stayed on the
\* wire for a whole round).  The payload is the index of the part.
DataInputs ==
    UNION {
      LET prop == properties[id]
          f == IF id \in DOMAIN files THEN files[id] ELSE NewFile
          wanted == f.base + Len(f.tail)
          indices == {i \in (wanted - 1) .. (wanted + MaxSkew) :
                         i >= 0 /\ Written(id) < MaxWritten}
      IN  {Encode(DataPacket(i, id, Wrap(i), 0),
                  HeaderSize + 1, prop.static_properties.checksum_size) :
              i \in indices \cup {j - U16 : j \in {k \in indices : k >= U16}}}
      : id \in DOMAIN properties}

\* End and Error datagrams for the receiver's connections, a Data packet of
\* an unknown connection, and damaged datagrams.
ControlInputs ==
    UNION {
      LET prop == properties[id]
          c == prop.static_properties.checksum_size
      IN  {Encode(EndPacket(id, Wrap(prop.window_position + d)), HeaderSize, c) :
              d \in {0, 1}}
          \cup {Encode(ErrorPacket(id), HeaderSize, c)}
      : id \in DOMAIN properties}
    \cup {Encode(DataPacket(0, MaxId + 1, 0, 0), HeaderSize + 1, 0), ShortPacket,
          [CorruptPacket EXCEPT !.len = 1500]}

\* The datagrams on the wire to the sender leave it: delivered or lost.
WireDrain ==
    /\ to_sender # {}
    /\ to_sender' = {}
    /\ UNCHANGED <<r_pc, r_config, properties, files, r_recv>>

\* The receiver serving one connection: an Init arrives only when the map and
\* the directory are empty.
ReceiverNext ==
    \/ \E id \in DOMAIN properties :
         to_sender = {} /\ ReceiverEvict(id) /\ UNCHANGED <<windowVars, senderVars, brokerVars, timerVars>>
    \/ \E pkt \in (IF DOMAIN properties = {} /\ DOMAIN files = {}
                     THEN InitProposals ELSE {})
                    \cup DataInputs \cup ControlInputs :
         to_sender = {} /\ ReceiverReceive(pkt) /\ UNCHANGED <<windowVars, senderVars, brokerVars, timerVars>>
    \/ WireDrain /\ UNCHANGED <<windowVars, senderVars, brokerVars, timerVars>>

SpecReceiver == InitReceiver /\ [][ReceiverNext]_vars

\* The receiver accepting connections: Init, End and Error datagrams and
\* timeouts, no Data.
AcceptNext ==
    \/ \E id \in DOMAIN properties :
         to_sender = {} /\ ReceiverEvict(id) /\ UNCHANGED <<windowVars, senderVars, brokerVars, timerVars>>
    \/ \E pkt \in InitProposals \cup ControlInputs :
         to_sender = {} /\ ReceiverReceive(pkt) /\ UNCHANGED <<windowVars, senderVars, brokerVars, timerVars>>
    \/ WireDrain /\ UNCHANGED <<windowVars, senderVars, brokerVars, timerVars>>

SpecAccept == InitReceiver /\ [][AcceptNext]_vars

\* The receiver's main loop with its clock: a pass removes the connections
\* that timed out, blocks in recv_from for at most the read timeout and
\* handles the datagram it read.
InitEvict ==
    /\ WindowIdle
    /\ SenderIdle
    /\ BrokerIdle
    /\ r_pc = "run"
    /\ r_config = [max_window_size |-> 3, max_packet_size |-> 1500, min_checksum |-> 0]
    /\ properties = NoParts
    /\ files = NoParts
    /\ r_recv = NoPacket
    /\ to_sender = {}
    /\ r_now = 0
    /\ last_receive_time = NoParts
    /\ r_at = "filter"

\* Datagrams the timed receiver reads: an Init while fewer than two
\* connections were made, the first part of a connection's file and its
\* copies, and the End that closes a connection.
EvictInputs ==
    (IF Cardinality(DOMAIN properties \cup DOMAIN files) < 2
     THEN {InitPacket(2, 1000, 0)} ELSE {})
    \cup {Encode(DataPacket(0, id, 0, 0), HeaderSize + 1,
                 properties[id].static_properties.checksum_size) :
            id \in DOMAIN properties}
    \cup {Encode(EndPacket(id, properties[id].window_position), HeaderSize,
                 properties[id].static_properties.checksum_size) :
            id \in DOMAIN properties}

EvictNext ==
    \/ to_sender = {} /\ FilterTimeouted /\ UNCHANGED <<windowVars, senderVars, brokerVars>>
    \/ \E pkt \in EvictInputs, waited \in 0 .. Timeout :
         to_sender = {} /\ TimedReceive(pkt, waited) /\ UNCHANGED <<windowVars, senderVars, brokerVars>>
    \/ RecvTimedOut /\ UNCHANGED <<windowVars, senderVars, brokerVars>>
    \/ WireDrain /\ UNCHANGED <<windowVars, senderVars, brokerVars, timerVars>>

SpecEvict == InitEvict /\ [][EvictNext]_vars

\* One receiver serving two senders at once: Data datagrams of both
\* connections arrive in any interleaving, each around the part the
\* connection waits for, then the End and Error datagrams.  The random id of
\* a new connection is not the name of a file left in the directory.
MultiplexInputs ==
    (IF Cardinality(DOMAIN properties \cup DOMAIN files) < 2
     THEN {InitPacket(2, 1000, 0)} ELSE {})
    \cup UNION {
      LET prop == properties[id]
          c == prop.static_properties.checksum_size
          wanted == Written(id)
      IN  {Encode(DataPacket(PayloadOf(id, i), id, Wrap(i), 0), HeaderSize + 1, c) :
              i \in {j \in (wanted - 1) .. (wanted + 1) :
                        j >= 0 /\ wanted < MaxWritten}}
          \cup {Encode(EndPacket(id, prop.window_position), HeaderSize, c),
                Encode(ErrorPacket(id), HeaderSize, c)}
      : id \in DOMAIN properties}

InitMultiplex ==
    /\ WindowIdle
    /\ SenderIdle
    /\ BrokerIdle
    /\ TimerIdle
    /\ r_pc = "run"
    /\ r_config = [max_window_size |-> 3, max_packet_size |-> 1500, min_checksum |-> 0]
    /\ properties = NoParts
    /\ files = NoParts
    /\ r_recv = NoPacket
    /\ to_sender = {}

MultiplexNext ==
    \/ \E id \in DOMAIN properties :
         to_sender = {} /\ ReceiverEvict(id) /\ UNCHANGED <<windowVars, senderVars, brokerVars, timerVars>>
    \/ \E pkt \in MultiplexInputs :
         /\ to_sender = {}
         /\ ReceiverReceive(pkt)
         /\ (DOMAIN properties' \ DOMAIN properties) \cap DOMAIN files = {}
         /\ UNCHANGED <<windowVars, senderVars, brokerVars, timerVars>>
    \/ WireDrain /\ UNCHANGED <<windowVars, senderVars, brokerVars, timerVars>>

SpecMultiplex == InitMultiplex /\ [][MultiplexNext]_vars

\* Packet values and checksum widths the codec is run on; the ids stay below
\* 2^31.
CodecPackets ==
    {InitValue(id, 15, 16, 0) : id \in {0, 2147483647}}
    \cup {InitValue(0, 3, 40, 16), InitValue(7, 65535, 20, 4), InitValue(0, 1, 31, 16),
          InitValue(0, 1, 15, 0), InitValue(0, 1, 20, 10), InitValue(0, 1, 12, 0)}
    \cup {DataValue(data, id, seq, 8) :
            data \in {<< >>, <<1>>, <<1, 2, 3, 4, 5, 6, 7>>, <<255, 0, 255, 1, 2>>},
            id \in {1, 256}, seq \in {5, 65535}}
    \cup {EndValue(1, 0), EndValue(2147483647, 65535), ErrorValue(0), ErrorValue(65536)}

ChecksumWidths == {0, 1, 4, 16, 64}

\* Lengths a datagram is cut to on the way.
TruncatedLengths == {3, 9, 12, 14, 15, 20, 30}

\* The codec on its own: a packet value is encoded, one byte of the datagram
\* may be replaced or the datagram cut short on the way, and the datagram is
\* decoded.
InitCodec ==
    /\ arg_ack = 0
    /\ arg_window_position = 0
    /\ cp_window_size = 0
    /\ is_within = FALSE
    /\ win_pc = "idle"
    /\ SenderIdle
    /\ ReceiverIdle
    /\ BrokerIdle
    /\ c_pc = "start"
    /\ c_p \in CodecPackets
    /\ c_k \in ChecksumWidths
    /\ c_memory = << >>
    /\ c_damaged = FALSE
    /\ c_result = NoResult

CodecNext ==
    \/ ToBinCall /\ UNCHANGED <<harnessVars, senderVars, receiverVars, brokerVars>>
    \/ \E pos \in {2, 6, 9, 10, 12, Len(c_memory)}, byte \in {0, 1, 3, 255} :
         Damage(pos, byte) /\ UNCHANGED <<harnessVars, senderVars, receiverVars, brokerVars>>
    \/ \E n \in TruncatedLengths :
         Truncate(n) /\ UNCHANGED <<harnessVars, senderVars, receiverVars, brokerVars>>
    \/ FromBinCall /\ UNCHANGED <<harnessVars, senderVars, receiverVars, brokerVars>>

SpecCodec == InitCodec /\ [][CodecNext]_vars

\* One direction of the broker: datagrams arrive with any delay, some are
\* dropped, time passes, and termination may be requested at any moment.
InitBroker ==
    /\ WindowIdle
    /\ SenderIdle
    /\ ReceiverIdle
    /\ BrokerIdle

BrokerNext ==
    \/ ReceivingLoop /\ UNCHANGED <<windowVars, senderVars, receiverVars>>
    \/ \E delay \in 0 .. MaxDelay, drop \in BOOLEAN :
         ReceivingPart(delay, drop) /\ UNCHANGED <<windowVars, senderVars, receiverVars>>
    \/ ReceivingTimeout /\ UNCHANGED <<windowVars, senderVars, receiverVars>>
    \/ SendingLock /\ UNCHANGED <<windowVars, senderVars, receiverVars>>
    \/ SendingPeek /\ UNCHANGED <<windowVars, senderVars, receiverVars>>
    \/ SendingWake /\ UNCHANGED <<windowVars, senderVars, receiverVars>>
    \/ SendingPop /\ UNCHANGED <<windowVars, senderVars, receiverVars>>
    \/ SendingSend /\ UNCHANGED <<windowVars, senderVars, receiverVars>>
    \/ Terminate /\ UNCHANGED <<windowVars, senderVars, receiverVars>>
    \/ Tick /\ UNCHANGED <<windowVars, senderVars, receiverVars>>

SpecBroker == InitBroker /\ [][BrokerNext]_vars

\* The threads of a direction keep running: the send thread is scheduled and
\* its wait on the condition variable ends after a second at the latest; the
\* receive thread is scheduled and recv_from returns after its read timeout.
SendingStep ==
    (SendingLock \/ SendingPeek \/ SendingWake \/ SendingPop \/ SendingSend)
        /\ UNCHANGED <<windowVars, senderVars, receiverVars>>

ReceivingStep ==
    (ReceivingLoop \/ ReceivingTimeout)
        /\ UNCHANGED <<windowVars, senderVars, receiverVars>>

\* One direction of the broker in its first milliseconds: datagrams arrive
\* with no delay or the longest one.
CancelNext ==
    \/ ReceivingLoop /\ UNCHANGED <<windowVars, senderVars, receiverVars>>
    \/ \E delay \in {0, MaxDelay}, drop \in BOOLEAN :
         ReceivingPart(delay, drop) /\ UNCHANGED <<windowVars, senderVars, receiverVars>>
    \/ ReceivingTimeout /\ UNCHANGED <<windowVars, senderVars, receiverVars>>
    \/ SendingLock /\ UNCHANGED <<windowVars, senderVars, receiverVars>>
    \/ SendingPeek /\ UNCHANGED <<windowVars, senderVars, receiverVars>>
    \/ SendingWake /\ UNCHANGED <<windowVars, senderVars, receiverVars>>
    \/ SendingPop /\ UNCHANGED <<windowVars, senderVars, receiverVars>>
    \/ SendingSend /\ UNCHANGED <<windowVars, senderVars, receiverVars>>
    \/ Terminate /\ UNCHANGED <<windowVars, senderVars, receiverVars>>
    \/ now <= TicksPerMilli
          /\ Tick /\ UNCHANGED <<windowVars, senderVars, receiverVars>>

SpecBrokerLive ==
    InitBroker /\ [][CancelNext]_vars /\ WF_vars(SendingStep) /\ WF_vars(ReceivingStep)

\* A transfer: one sender and the receiver, joined by a network that loses,
\* duplicates, delays and reorders datagrams (a datagram sent may be read at
\* any later time, any number of times, or never).
TransferConfigs ==
    {[window_size |-> w, packet_size |-> 1000, checksum_size |-> 0,
      repetition |-> MaxRepetition] : w \in {1, 2}}

Init ==
    /\ WindowIdle
    /\ BrokerIdle
    /\ TimerIdle
    /\ s_config \in TransferConfigs
    /\ init_packet = InitPacket(s_config.window_size, s_config.packet_size,
                                s_config.checksum_size)
    /\ s_pc = "init_send"
    /\ s_props = NoProps
    /\ s_window_position = 0
    /\ input_pos = 0
    /\ input_len \in 0 .. MaxParts
    /\ input_last = 1
    /\ attempts = 0
    /\ inits_sent = 0
    /\ s_recv = NoPacket
    /\ s_sent = NoPacket
    /\ ack_moved = FALSE
    /\ loaded_parts = NoParts
    /\ file_read = FALSE
    /\ to_receiver = {}
    /\ r_pc = "run"
    /\ r_config = [max_window_size |-> 3, max_packet_size |-> 1500, min_checksum |-> 0]
    /\ properties = NoParts
    /\ files = NoParts
    /\ r_recv = NoPacket
    /\ to_sender = {}

SenderStep ==
    \/ InitSend /\ UNCHANGED <<windowVars, receiverVars, brokerVars>>
    \/ InitExhausted /\ UNCHANGED <<windowVars, receiverVars, brokerVars>>
    \/ InitTimeout /\ UNCHANGED <<windowVars, receiverVars, brokerVars>>
    \/ \E pkt \in to_sender : InitReceive(pkt) /\ UNCHANGED <<windowVars, receiverVars, brokerVars>>
    \/ SendDataIteration /\ UNCHANGED <<windowVars, receiverVars, brokerVars>>
    \/ SendDataExit /\ UNCHANGED <<windowVars, receiverVars, brokerVars>>
    \/ SendDataTimeout /\ UNCHANGED <<windowVars, receiverVars, brokerVars>>
    \/ \E pkt \in to_sender : SendDataReceive(pkt) /\ UNCHANGED <<windowVars, receiverVars, brokerVars>>
    \/ EndSend /\ UNCHANGED <<windowVars, receiverVars, brokerVars>>
    \/ EndExhausted /\ UNCHANGED <<windowVars, receiverVars, brokerVars>>
    \/ EndTimeout /\ UNCHANGED <<windowVars, receiverVars, brokerVars>>
    \/ \E pkt \in to_sender : EndReceive(pkt) /\ UNCHANGED <<windowVars, receiverVars, brokerVars>>

\* The ids the receiver has given to connections so far.
UsedIds == DOMAIN properties \cup {pkt.id : pkt \in to_sender}

\* The receiver's random ids do not repeat within a run.
ReceiverStep ==
    \/ \E id \in DOMAIN properties :
         ReceiverEvict(id) /\ UNCHANGED <<windowVars, senderVars, brokerVars, timerVars>>
    \/ \E pkt \in to_receiver :
         /\ ReceiverReceive(pkt)
         /\ (DOMAIN properties' \ DOMAIN properties) \cap UsedIds = {}
         /\ UNCHANGED <<windowVars, senderVars, brokerVars, timerVars>>

Next == SenderStep \/ ReceiverStep

Spec == Init /\ [][Next]_vars

\* The transfer of tests/smaller_packet_size.rs: the sender proposes packets
\* of 1500 bytes to a receiver whose max_packet_size is 800 or 2000; the parts
\* of the file are full, or the last one is a single byte.
InitSmallerPacket ==
    /\ WindowIdle
    /\ BrokerIdle
    /\ TimerIdle
    /\ s_config = [window_size |-> 1, packet_size |-> 1500, checksum_size |-> 0,
                   repetition |-> MaxRepetition]
    /\ init_packet = InitPacket(s_config.window_size, s_config.packet_size,
                                s_config.checksum_size)
    /\ s_pc = "init_send"
    /\ s_props = NoProps
    /\ s_window_position = 0
    /\ input_pos = 0
    /\ input_len = 2
    /\ input_last \in {1, BUFFER_SIZE}
    /\ attempts = 0
    /\ inits_sent = 0
    /\ s_recv = NoPacket
    /\ s_sent = NoPacket
    /\ ack_moved = FALSE
    /\ loaded_parts = NoParts
    /\ file_read = FALSE
    /\ to_receiver = {}
    /\ r_pc = "run"
    /\ r_config \in {[max_window_size |-> 15, max_packet_size |-> p, min_checksum |-> 0] :
                       p \in {800, 2000}}
    /\ properties = NoParts
    /\ files = NoParts
    /\ r_recv = NoPacket
    /\ to_sender = {}

SpecSmallerPacket == InitSmallerPacket /\ [][Next]_vars

\* The transfer of a file of three parts over a connection with the widest
\* window a u16 holds, from the moment the handshake is over: create_connection
\* has returned connection 1, which is in the receiver's map, and no Init is
\* on the wire any more.
InitWideWindow ==
    /\ WindowIdle
    /\ BrokerIdle
    /\ TimerIdle
    /\ s_config = [window_size |-> U16 - 1, packet_size |-> 1000, checksum_size |-> 0,
                   repetition |-> 1]
    /\ init_packet = InitPacket(s_config.window_size, s_config.packet_size,
                                s_config.checksum_size)
    /\ s_pc = "send_data"
    /\ s_props = ConnectionProperties(1, 0, U16 - 1, 1000)
    /\ s_window_position = 0
    /\ input_pos = 0
    /\ input_len = 3
    /\ input_last = 1
    /\ attempts = 0
    /\ inits_sent = 1
    /\ s_recv = [init_packet EXCEPT !.id = 1]
    /\ s_sent = init_packet
    /\ ack_moved = FALSE
    /\ loaded_parts = NoParts
    /\ file_read = FALSE
    /\ to_receiver = {}
    /\ r_pc = "run"
    /\ r_config = [max_window_size |-> U16 - 1, max_packet_size |-> 1500,
                   min_checksum |-> 0]
    /\ properties = With(NoParts, 1,
                         ReceiverConnectionProperties(
                             ConnectionProperties(1, 0, U16 - 1, 1000)))
    /\ files = NoParts
    /\ r_recv = init_packet
    /\ to_sender = {}

\* The steps of an established connection: the Data and Closing phases of the
\* sender and the receiver's loop.
EstablishedNext ==
    \/ SendDataIteration /\ UNCHANGED <<windowVars, receiverVars, brokerVars>>
    \/ SendDataExit /\ UNCHANGED <<windowVars, receiverVars, brokerVars>>
    \/ SendDataTimeout /\ UNCHANGED <<windowVars, receiverVars, brokerVars>>
    \/ \E pkt \in to_sender : SendDataReceive(pkt) /\ UNCHANGED <<windowVars, receiverVars, brokerVars>>
    \/ EndSend /\ UNCHANGED <<windowVars, receiverVars, brokerVars>>
    \/ EndExhausted /\ UNCHANGED <<windowVars, receiverVars, brokerVars>>
    \/ EndTimeout /\ UNCHANGED <<windowVars, receiverVars, brokerVars>>
    \/ \E pkt \in to_sender : EndReceive(pkt) /\ UNCHANGED <<windowVars, receiverVars, brokerVars>>
    \/ \E id \in DOMAIN properties :
         ReceiverEvict(id) /\ UNCHANGED <<windowVars, senderVars, brokerVars, timerVars>>
    \/ \E pkt \in to_receiver :
         ReceiverReceive(pkt) /\ UNCHANGED <<windowVars, senderVars, brokerVars, timerVars>>

SpecWideWindow == InitWideWindow /\ [][EstablishedNext]_vars

\* The handshake: a sender with the default window and packet size and a
\* receiver with limits below or above them, joined by a network that loses,
\* duplicates, delays and reorders datagrams and by a broker that may shorten
\* a datagram to BrokerPacketSize bytes on its way.
BrokerPacketSize == 500

InitHandshake ==
    /\ WindowIdle
    /\ BrokerIdle
    /\ TimerIdle
    /\ s_config = [window_size |-> 15, packet_size |-> 1500, checksum_size |-> 0,
                   repetition |-> MaxRepetition]
    /\ init_packet = InitPacket(s_config.window_size, s_config.packet_size,
                                s_config.checksum_size)
    /\ s_pc = "init_send"
    /\ s_props = NoProps
    /\ s_window_position = 0
    /\ input_pos = 0
    /\ input_len = 1
    /\ input_last = 1
    /\ attempts = 0
    /\ inits_sent = 0
    /\ s_recv = NoPacket
    /\ s_sent = NoPacket
    /\ ack_moved = FALSE
    /\ loaded_parts = NoParts
    /\ file_read = FALSE
    /\ to_receiver = {}
    /\ r_pc = "run"
    /\ r_config \in {[max_window_size |-> w, max_packet_size |-> p, min_checksum |-> c] :
                       w \in {3, 20}, p \in {800, 2000}, c \in {0, 16}}
    /\ properties = NoParts
    /\ files = NoParts
    /\ r_recv = NoPacket
    /\ to_sender = {}

\* The datagram as it leaves the broker: whole, or its first
\* BrokerPacketSize bytes.
Shortened(pkt) == {pkt, [pkt EXCEPT !.len = Min(pkt.len, BrokerPacketSize)]}

HandshakeNext ==
    \/ InitSend /\ UNCHANGED <<windowVars, receiverVars, brokerVars>>
    \/ InitExhausted /\ UNCHANGED <<windowVars, receiverVars, brokerVars>>
    \/ InitTimeout /\ UNCHANGED <<windowVars, receiverVars, brokerVars>>
    \/ \E sent \in to_sender : \E pkt \in Shortened(sent) :
         InitReceive(pkt) /\ UNCHANGED <<windowVars, receiverVars, brokerVars>>
    \/ \E id \in DOMAIN properties :
         ReceiverEvict(id) /\ UNCHANGED <<windowVars, senderVars, brokerVars, timerVars>>
    \/ \E sent \in to_receiver : \E pkt \in Shortened(sent) :
         /\ ReceiverReceive(pkt)
         /\ UNCHANGED <<windowVars, senderVars, brokerVars, timerVars>>

SpecHandshake == InitHandshake /\ [][HandshakeNext]_vars

\* The transfer with both processes running: neither the sender nor the
\* receiver stops while it has a step to take.
SpecLive == Init /\ [][Next]_vars /\ WF_vars(SenderStep) /\ WF_vars(ReceiverStep)

\* A connection in the receiver's map times out at last.
TimeoutStep ==
    \E id \in DOMAIN properties :
       ReceiverEvict(id) /\ UNCHANGED <<windowVars, senderVars, brokerVars, timerVars>>

\* The transfer with both processes running and every connection of the
\* receiver timing out once its packets stop coming.
SpecLiveTimeouts ==
    Init /\ [][Next]_vars /\ WF_vars(SenderStep) /\ WF_vars(ReceiverStep)
         /\ WF_vars(TimeoutStep)

====
